---- MODULE Spec2Model ----
(***************************************************************************)
(* Conversation reconstruction engine of claude-code-viewer:               *)
(*   - parseJsonl / ConversationSchema   (the entry decoder)               *)
(*   - buildSidechainData                (root walk, groups, indices)      *)
(*   - renderTaskTool                    (the delegation resolver and the  *)
(*                                        rendering of nested delegations) *)
(*   - useSidechain, isRootSidechain     (the viewer's groups and indices) *)
(*   - generateSessionHtml               (loading the sub-session logs,    *)
(*                                        the entries of the document)     *)
(*   - extractSearchableText             (the text of an entry)            *)
(* Each part has its own specification over the variables of the module;   *)
(* a specification leaves the variables of the other parts at rest.        *)
(***************************************************************************)
EXTENDS Integers, Sequences, FiniteSets, TLC

VARIABLES
    \* ---- parseJsonl ----
    content,        \* the input text, as its sequence of "\n"-separated lines
    lines,          \* the lines left after trim/split/filter
    index,          \* number of lines already mapped (the callback's 0-based index)
    result,         \* the array under construction
    pcParse,        \* "idle" | "start" | "mapping" | "returned" | "threw"
    ret,            \* what the caller received: NoReturn, or the returned array
    \* ---- ConversationSchema.safeParse of one value ----
    schemaInput,    \* the JSON value under validation, or NoValue
    parsedCurrent,  \* outcome against ConversationSchema, or NotRun
    parsedLegacy,   \* outcome against the union before the two new variants, or NotRun
    \* ---- buildSidechainData / renderTaskTool ----
    conversations,  \* the decoded sequence handed to buildSidechainData
    pc,             \* "idle" | "start" | "built" | "rebuilt" | "threw" (export);
                    \*   "mount" | "mounted" | "threw" (viewer)
    walks,          \* outcome of getRootConversation for each delegated entry walked
    sidechainData,  \* the four maps buildSidechainData returns
    resolved,       \* the last renderTaskTool lookup: its arguments and the list found
    rendered,       \* the last renderTaskTool call: how it ended and the number of
                    \*   renderTaskTool calls it made, itself included
    \* ---- useSidechain ----
    hook,           \* the memoized values of useSidechain, or NotMounted
    got,            \* the last getSidechainConversations call: its argument and result
    isRoot,         \* the last isRootSidechain call: the position of its argument in
                    \*   the sequence, whether it read conversation.uuid, what it returned
    \* ---- generateSessionHtml: loading the missing sub-session logs ----
    session,        \* session.conversations
    missingAgentIds,      \* the agentIds to fetch, in order
    fetchState,     \* per missing agentId: "pending" | "running" | "loaded" |
                    \*   "notfound" | "failed" | "interrupted"
    loadedConversations,  \* the entries taken from the fetched sub-sessions
    exportPc,       \* "idle" | "start" | "loading" | "loaded" | "combined" | "failed"
    \* ---- extractSearchableText ----
    searchInput,    \* the entry handed to extractSearchableText, or a summary
    searchableText, \* what it returned, or NotSearched
    \* ---- generateSessionHtml: the entries of the document ----
    docInput,       \* session.conversations handed to groupConsecutiveAssistantMessages
    grouped,        \* what groupConsecutiveAssistantMessages returned
    conversationsHtml,    \* the non-empty fragments of the document, in order
    docPc           \* "idle" | "start" | "grouped" | "rendered"

parseVars == <<content, lines, index, result, pcParse, ret>>
schemaVars == <<schemaInput, parsedCurrent, parsedLegacy>>
sidechainVars == <<conversations, pc, walks, sidechainData, resolved, rendered>>
hookVars == <<hook, got, isRoot>>
exportVars == <<session, missingAgentIds, fetchState, loadedConversations, exportPc>>
searchVars == <<searchInput, searchableText>>
docVars == <<docInput, grouped, conversationsHtml, docPc>>
vars == <<parseVars, schemaVars, sidechainVars, hookVars, exportVars, searchVars, docVars>>

\* ------------------------------------------------------------------------
\* Bounds of the model
\* ------------------------------------------------------------------------
MaxLines == 3     \* longest input text, in lines
MaxConvs == 3     \* longest decoded sequence handed to buildSidechainData
MaxAgents == 6    \* most sub-sessions the Task results of a session name
MaxItems == 2     \* most content items of a message handed to extractSearchableText
MaxEntries == 4   \* longest session.conversations handed to the document rendering

\* ------------------------------------------------------------------------
\* Values shared by the three parts
\* ------------------------------------------------------------------------
Null == "<null>"              \* JavaScript null
Undefined == "<undefined>"    \* JavaScript undefined (an absent optional field)

\* A Map with no entry.
EmptyMap == [k \in {} |-> Undefined]

EmptySidechainData ==
    [groupsByRootUuid |-> EmptyMap, promptToRoot |-> EmptyMap,
     agentIdToRoot |-> EmptyMap, toolUseIdToAgentId |-> EmptyMap]

NoLookup == [toolId |-> Undefined, prompt |-> Undefined, convs |-> <<>>]

\* renderTaskTool not called.
NotRendered == [called |-> FALSE, threw |-> FALSE, calls |-> 0]

SidechainIdle ==
    /\ conversations = <<>> /\ pc = "idle" /\ walks = <<>>
    /\ sidechainData = EmptySidechainData /\ resolved = NoLookup /\ rendered = NotRendered

\* useSidechain before the component is mounted, and no lookup made.
NotMounted ==
    [mounted |-> FALSE, sidechainConversationGroups |-> EmptyMap,
     conversationPromptMap |-> EmptyMap, conversationAgentIdMap |-> EmptyMap]

NoGet == [rootUuid |-> Undefined, convs |-> <<>>]

\* isRootSidechain not called.
NotAsked == [called |-> FALSE, position |-> 0, uuidRead |-> FALSE,
             returned |-> FALSE]

HookIdle == hook = NotMounted /\ got = NoGet /\ isRoot = NotAsked

ExportIdle ==
    /\ session = <<>> /\ missingAgentIds = <<>> /\ fetchState = <<>>
    /\ loadedConversations = <<>> /\ exportPc = "idle"

\* extractSearchableText not called.
NotSearched == [called |-> FALSE, text |-> Undefined]

SearchIdle == searchInput = [type |-> "summary"] /\ searchableText = NotSearched

\* groupConsecutiveAssistantMessages not called.
DocIdle ==
    /\ docInput = <<>> /\ grouped = <<>> /\ conversationsHtml = <<>>
    /\ docPc = "idle"

\* ------------------------------------------------------------------------
\* JSON values and the schema union
\* ------------------------------------------------------------------------
\* No value under validation yet; no outcome yet; nothing handed to the caller yet.
NoValue ==
    [type |-> "<no value>", customTitle |-> "absent", agentName |-> "absent",
     sessionId |-> "absent", rest |-> "invalid"]
NotRun == [success |-> FALSE, variant |-> "<not run>"]
NoReturn == [delivered |-> FALSE, value |-> <<>>]

\* How a JSON value carries a field: a string, a value of another JSON type, or not at all.
FieldTags == {"string", "number", "absent"}

\* The "type" discriminants of the seven variants that pre-date custom-title and agent-name.
LegacyTypes ==
    {"user", "assistant", "summary", "system", "file-history-snapshot",
     "queue-operation", "progress"}

\* "type" values a line can carry; "unknown" is any other string, "<none>" a value
\* with no type field (or a JSON value that is not an object).
TypeTags == LegacyTypes \cup {"custom-title", "agent-name", "unknown", "<none>"}

\* A JSON value, as far as validation reads it.  rest says whether the required
\* fields of the legacy variant named by type are all present and well typed.
JsonValues ==
    [type : TypeTags, customTitle : FieldTags, agentName : FieldTags,
     sessionId : FieldTags, rest : {"valid", "invalid"}]

\* z.object({type: z.literal(t), ...}) of a legacy variant.
LegacyEntrySchema(t, v) ==
    v.type = t /\ v.rest = "valid"

\* Mutant: the type literal is not checked.
CustomTitleEntrySchemaAnyType(v) ==
    /\ v.customTitle = "string"
    /\ v.sessionId = "string"

CustomTitleEntrySchema(v) ==
    /\ v.type = "custom-title"
    /\ v.customTitle = "string"
    /\ v.sessionId = "string"

AgentNameEntrySchema(v) ==
    /\ v.type = "agent-name"
    /\ v.agentName = "string"
    /\ v.sessionId = "string"

\* The members of the union, in the order z.union tries them.
ConversationSchema ==
    <<"user", "assistant", "summary", "system", "file-history-snapshot",
      "queue-operation", "progress", "custom-title", "agent-name">>

\* The union as it was before CustomTitleEntrySchema and AgentNameEntrySchema.
LegacyConversationSchema ==
    SelectSeq(ConversationSchema, LAMBDA s : s \in LegacyTypes)

\* Does the union member named s accept v?
Accepts(s, v) ==
    CASE s = "custom-title" -> CustomTitleEntrySchema(v)
      [] s = "agent-name" -> AgentNameEntrySchema(v)
      [] OTHER -> LegacyEntrySchema(s, v)

\* union.safeParse(v): the first member that accepts v wins; none is a failure.
SafeParse(union, v) ==
    LET hits == {i \in 1..Len(union) : Accepts(union[i], v)}
    IN  IF hits = {}
        THEN [success |-> FALSE, variant |-> "<none>"]
        ELSE [success |-> TRUE,
              variant |-> union[CHOOSE i \in hits : \A j \in hits : i <= j]]

\* ------------------------------------------------------------------------
\* parseJsonl
\* ------------------------------------------------------------------------
\* A line of text: empty, whitespace only, text JSON.parse rejects, or the
\* serialisation of a JSON value.
Json(t, ct, an, sid, rest) ==
    [kind |-> "json",
     value |-> [type |-> t, customTitle |-> ct, agentName |-> an,
                sessionId |-> sid, rest |-> rest]]

EmptyLine == [kind |-> "empty", value |-> NoValue]
WhitespaceLine == [kind |-> "whitespace", value |-> NoValue]
InvalidJsonLine == [kind |-> "invalid", value |-> NoValue]

\* The lines the decoder is run on.
LineAlphabet ==
    {EmptyLine, WhitespaceLine, InvalidJsonLine,
     Json("user", "absent", "absent", "string", "valid"),
     Json("summary", "absent", "absent", "absent", "valid"),
     Json("custom-title", "string", "absent", "string", "invalid"),
     Json("user", "absent", "absent", "string", "invalid"),
     Json("unknown", "string", "absent", "string", "invalid")}

Texts == UNION {[1..n -> LineAlphabet] : n \in 0..MaxLines}

IsBlank(line) == line.kind \in {"empty", "whitespace"}

\* Mutant: blank lines are not filtered out.
SplitLinesKeepBlank(text) == text

\* content.trim().split("\n").filter((line) => line.trim() !== "")
SplitLines(text) == SelectSeq(text, LAMBDA line : ~IsBlank(line))

\* Mutant: the callback's index is recorded as it is.
LineNumberZeroBased(idx) == idx

\* The lineNumber recorded for the element the map callback sees at idx (0-based).
LineNumber(idx) == idx + 1

ErrorJsonl(line, idx) ==
    [type |-> "x-error", line |-> line, lineNumber |-> LineNumber(idx)]

\* The element the map callback returns for a line JSON.parse accepts.
DecodeLine(line, idx) ==
    LET parsed == SafeParse(ConversationSchema, line.value)
    IN  IF parsed.success
        THEN [type |-> parsed.variant, data |-> line.value]
        ELSE ErrorJsonl(line, idx)

ParseIdle ==
    /\ content = <<>> /\ lines = <<>> /\ index = 0 /\ result = <<>>
    /\ pcParse = "idle" /\ ret = NoReturn

SchemaIdle ==
    /\ schemaInput = NoValue /\ parsedCurrent = NotRun /\ parsedLegacy = NotRun

InitParse ==
    /\ content \in Texts
    /\ lines = <<>> /\ index = 0 /\ result = <<>>
    /\ pcParse = "start" /\ ret = NoReturn
    /\ SchemaIdle
    /\ SidechainIdle
    /\ HookIdle /\ ExportIdle /\ SearchIdle /\ DocIdle

\* const lines = content.trim().split("\n").filter(...)
SplitAndFilter ==
    /\ pcParse = "start"
    /\ lines' = SplitLines(content)
    /\ pcParse' = "mapping"
    /\ UNCHANGED <<content, index, result, ret, schemaVars, sidechainVars, hookVars, exportVars, searchVars, docVars>>

\* One call of the map callback on a line that is JSON and matches the schema.
MapLineTyped ==
    /\ pcParse = "mapping" /\ index < Len(lines)
    /\ lines[index + 1].kind = "json"
    /\ SafeParse(ConversationSchema, lines[index + 1].value).success
    /\ result' = Append(result, DecodeLine(lines[index + 1], index))
    /\ index' = index + 1
    /\ UNCHANGED <<content, lines, pcParse, ret, schemaVars, sidechainVars, hookVars, exportVars, searchVars, docVars>>

\* One call of the map callback on a line that is JSON and fails the schema.
MapLineSchemaError ==
    /\ pcParse = "mapping" /\ index < Len(lines)
    /\ lines[index + 1].kind = "json"
    /\ ~SafeParse(ConversationSchema, lines[index + 1].value).success
    /\ result' = Append(result, DecodeLine(lines[index + 1], index))
    /\ index' = index + 1
    /\ UNCHANGED <<content, lines, pcParse, ret, schemaVars, sidechainVars, hookVars, exportVars, searchVars, docVars>>

\* Mutant: a line JSON.parse rejects becomes a marker and the map goes on.
MapLineSwallow ==
    /\ pcParse = "mapping" /\ index < Len(lines)
    /\ lines[index + 1].kind # "json"
    /\ result' = Append(result, ErrorJsonl(lines[index + 1], index))
    /\ index' = index + 1
    /\ UNCHANGED <<content, lines, pcParse, ret, schemaVars, sidechainVars, hookVars, exportVars, searchVars, docVars>>

\* JSON.parse throws on the line: the exception leaves map and parseJsonl.
MapLineThrow ==
    /\ pcParse = "mapping" /\ index < Len(lines)
    /\ lines[index + 1].kind # "json"
    /\ pcParse' = "threw"
    /\ UNCHANGED <<content, lines, index, result, ret, schemaVars, sidechainVars, hookVars, exportVars, searchVars, docVars>>

\* map is done: the array is returned.
ReturnResult ==
    /\ pcParse = "mapping" /\ index = Len(lines)
    /\ ret' = [delivered |-> TRUE, value |-> result]
    /\ pcParse' = "returned"
    /\ UNCHANGED <<content, lines, index, result, schemaVars, sidechainVars, hookVars, exportVars, searchVars, docVars>>

NextParse ==
    \/ SplitAndFilter
    \/ MapLineTyped
    \/ MapLineSchemaError
    \/ MapLineThrow
    \/ ReturnResult

SpecParse == InitParse /\ [][NextParse]_vars

\* ------------------------------------------------------------------------
\* One value against the union, current and legacy
\* ------------------------------------------------------------------------
InitSchema ==
    /\ schemaInput \in JsonValues
    /\ parsedCurrent = NotRun /\ parsedLegacy = NotRun
    /\ ParseIdle
    /\ SidechainIdle
    /\ HookIdle /\ ExportIdle /\ SearchIdle /\ DocIdle

SafeParseCurrent ==
    /\ schemaInput # NoValue /\ parsedCurrent = NotRun
    /\ parsedCurrent' = SafeParse(ConversationSchema, schemaInput)
    /\ UNCHANGED <<schemaInput, parsedLegacy, parseVars, sidechainVars, hookVars, exportVars, searchVars, docVars>>

SafeParseLegacy ==
    /\ schemaInput # NoValue /\ parsedLegacy = NotRun
    /\ parsedLegacy' = SafeParse(LegacyConversationSchema, schemaInput)
    /\ UNCHANGED <<schemaInput, parsedCurrent, parseVars, sidechainVars, hookVars, exportVars, searchVars, docVars>>

NextSchema ==
    \/ SafeParseCurrent
    \/ SafeParseLegacy

SpecSchema == InitSchema /\ [][NextSchema]_vars

\* ------------------------------------------------------------------------
\* Decoded entries
\* ------------------------------------------------------------------------
\* The kinds with no uuid, parentUuid, isSidechain, timestamp or agentId.
NonStructuralTypes ==
    {"summary", "file-history-snapshot", "queue-operation", "progress",
     "custom-title", "agent-name"}

\* message.content that is a plain string / an array of content blocks.
StringContent(text) == [kind |-> "string", text |-> text, blocks |-> <<>>]
BlockContent(blocks) == [kind |-> "blocks", text |-> Undefined, blocks |-> blocks]

ToolResultBlock(toolUseId) == [type |-> "tool_result", tool_use_id |-> toolUseId]

\* A tool_use block of an assistant entry: msg.id, msg.name, msg.input.
ToolUseBlock(id, name, input) ==
    [type |-> "tool_use", id |-> id, name |-> name, input |-> input]

\* toolUseResult: absent, or an object whose agentId is a string / is not a string.
NoToolUseResult == [agentIdType |-> "absent", agentId |-> Undefined]
AgentToolUseResult(agentId) == [agentIdType |-> "string", agentId |-> agentId]
OtherToolUseResult == [agentIdType |-> "number", agentId |-> Undefined]

\* A user, assistant or system entry.
Entry(type, uuid, parentUuid, isSidechain, timestamp, agentId, msgContent, toolUseResult) ==
    [type |-> type, uuid |-> uuid, parentUuid |-> parentUuid,
     isSidechain |-> isSidechain, timestamp |-> timestamp, agentId |-> agentId,
     message |-> [content |-> msgContent], toolUseResult |-> toolUseResult]

\* An entry of a non-structural kind: it has none of the fields above.
MetaEntry(type) == [type |-> type]

\* ISO timestamps of the entries; the last two name the same instant.
Timestamps ==
    {"2024-01-01T00:00:00.000Z", "2024-01-01T00:00:01.000Z", "2024-01-01T00:00:01Z"}

\* new Date(timestamp).getTime(), in milliseconds since 2024-01-01T00:00:00Z.
GetTime(timestamp) ==
    CASE timestamp = "2024-01-01T00:00:00.000Z" -> 0
      [] timestamp = "2024-01-01T00:00:01.000Z" -> 1000
      [] timestamp = "2024-01-01T00:00:01Z" -> 1000

\* ------------------------------------------------------------------------
\* buildSidechainData
\* ------------------------------------------------------------------------
\* map.set(key, value)
MapSet(map, key, value) ==
    [k \in DOMAIN map \cup {key} |-> IF k = key THEN value ELSE map[k]]

\* new Map(pairs): a later pair replaces an earlier one with the same key.
RECURSIVE MapOfPairs(_)
MapOfPairs(pairs) ==
    IF pairs = <<>>
    THEN EmptyMap
    ELSE LET last == pairs[Len(pairs)]
         IN  MapSet(MapOfPairs(SubSeq(pairs, 1, Len(pairs) - 1)), last[1], last[2])

\* Mutant: entries not flagged isSidechain are kept too.
IsSidechainConversationAnyFlag(conv) ==
    conv.type \notin NonStructuralTypes

\* Mutant: the kind tests of the list that lacks the two newest kinds.
PassesKindTestsOlderList(conv) ==
    /\ conv.type # "summary"
    /\ conv.type # "file-history-snapshot"
    /\ conv.type # "queue-operation"
    /\ conv.type # "progress"

\* The kind tests of the filter: conv.isSidechain is read only when all six pass.
PassesKindTests(conv) ==
    /\ conv.type # "summary"
    /\ conv.type # "file-history-snapshot"
    /\ conv.type # "queue-operation"
    /\ conv.type # "progress"
    /\ conv.type # "custom-title"
    /\ conv.type # "agent-name"

\* The filter of buildSidechainData: the kind is tested before isSidechain is read.
IsSidechainConversation(conv) ==
    /\ PassesKindTests(conv)
    /\ conv.isSidechain = TRUE

SidechainConversations(convs) == SelectSeq(convs, IsSidechainConversation)

\* uuid -> conversation map for parent lookup
UuidMap(sidechainConvs) ==
    MapOfPairs([i \in 1..Len(sidechainConvs) |->
                   <<sidechainConvs[i].uuid, sidechainConvs[i]>>])

\* What a call gives when the recursion has used up the engine's call stack:
\* the engine throws RangeError (Maximum call stack size exceeded).
RangeError == [type |-> "RangeError"]

\* Depth of recursion the call stack allows: more than any walk over distinct
\* entries needs.
StackLimit == 2 * MaxConvs

\* Mutant: a parent that is not in the map is an error.
RECURSIVE getRootConversationStrict(_, _, _)
getRootConversationStrict(conv, uuidMap, depth) ==
    IF depth > StackLimit THEN RangeError
    ELSE IF conv.parentUuid = Null THEN conv
    ELSE IF conv.parentUuid \notin DOMAIN uuidMap THEN RangeError
    ELSE getRootConversationStrict(uuidMap[conv.parentUuid], uuidMap, depth + 1)

\* getRootConversation(conv), called at recursion depth `depth`: there is no
\* visited set, so the only bound on the recursion is the call stack.
RECURSIVE getRootConversation(_, _, _)
getRootConversation(conv, uuidMap, depth) ==
    IF depth > StackLimit THEN RangeError
    ELSE IF conv.parentUuid = Null THEN conv
    ELSE IF conv.parentUuid \notin DOMAIN uuidMap THEN conv
    ELSE getRootConversation(uuidMap[conv.parentUuid], uuidMap, depth + 1)

\* Number of recursive calls getRootConversation(conv) makes before it returns
\* or the stack is used up.
RECURSIVE WalkDepth(_, _, _)
WalkDepth(conv, uuidMap, depth) ==
    IF depth > StackLimit THEN depth
    ELSE IF conv.parentUuid = Null THEN depth
    ELSE IF conv.parentUuid \notin DOMAIN uuidMap THEN depth
    ELSE WalkDepth(uuidMap[conv.parentUuid], uuidMap, depth + 1)

\* Mutant: the entry is filed under its own uuid, not its root's.
GroupStepOwnUuid(groups, conv, root) ==
    IF conv.uuid \in DOMAIN groups
    THEN [groups EXCEPT ![conv.uuid] = Append(@, conv)]
    ELSE MapSet(groups, conv.uuid, <<conv>>)

\* One turn of the grouping loop: push conv on the list of its root, or start one.
GroupStep(groups, conv, root) ==
    IF root.uuid \in DOMAIN groups
    THEN [groups EXCEPT ![root.uuid] = Append(@, conv)]
    ELSE MapSet(groups, root.uuid, <<conv>>)

\* for (const conv of sidechainConversations) { ... group by root.uuid ... }
RECURSIVE GroupByRoot(_, _, _)
GroupByRoot(groups, sidechainConvs, uuidMap) ==
    IF sidechainConvs = <<>>
    THEN groups
    ELSE GroupByRoot(
             GroupStep(groups, Head(sidechainConvs),
                       getRootConversation(Head(sidechainConvs), uuidMap, 0)),
             Tail(sidechainConvs), uuidMap)

\* The comparator handed to sort.
CompareTimestamp(a, b) == GetTime(a.timestamp) - GetTime(b.timestamp)

\* Insertion of conv into a sorted list, behind every element that does not
\* compare greater (Array.prototype.sort is stable).
RECURSIVE InsertSorted(_, _)
InsertSorted(sorted, conv) ==
    IF sorted = <<>> THEN <<conv>>
    ELSE IF CompareTimestamp(Head(sorted), conv) > 0
         THEN <<conv>> \o sorted
         ELSE <<Head(sorted)>> \o InsertSorted(Tail(sorted), conv)

\* Mutant: the group is left in input order.
SortByTimestampNoSort(convs) == convs

\* Mutant: an entry is put in front of the entries with an equal timestamp.
RECURSIVE InsertSortedUnstable(_, _)
InsertSortedUnstable(sorted, conv) ==
    IF sorted = <<>> THEN <<conv>>
    ELSE IF CompareTimestamp(Head(sorted), conv) >= 0
         THEN <<conv>> \o sorted
         ELSE <<Head(sorted)>> \o InsertSortedUnstable(Tail(sorted), conv)

RECURSIVE SortByTimestampUnstable(_)
SortByTimestampUnstable(convs) ==
    IF convs = <<>> THEN <<>>
    ELSE InsertSortedUnstable(
             SortByTimestampUnstable(SubSeq(convs, 1, Len(convs) - 1)),
             convs[Len(convs)])

\* convs.sort((a, b) => new Date(a.timestamp).getTime() - new Date(b.timestamp).getTime())
RECURSIVE SortByTimestamp(_)
SortByTimestamp(convs) ==
    IF convs = <<>> THEN <<>>
    ELSE InsertSorted(SortByTimestamp(SubSeq(convs, 1, Len(convs) - 1)),
                      convs[Len(convs)])

\* groupsByRootUuid: grouped, then each group sorted.
GroupsByRootUuid(sidechainConvs, uuidMap) ==
    LET groups == GroupByRoot(EmptyMap, sidechainConvs, uuidMap)
    IN  [k \in DOMAIN groups |-> SortByTimestamp(groups[k])]

\* Mutant: the first root with a prompt keeps it.
RECURSIVE PromptToRootFirstWins(_, _)
PromptToRootFirstWins(map, sidechainConvs) ==
    IF sidechainConvs = <<>>
    THEN map
    ELSE LET conv == Head(sidechainConvs)
         IN  PromptToRootFirstWins(
                 IF /\ conv.type = "user"
                    /\ conv.parentUuid = Null
                    /\ conv.message.content.kind = "string"
                    /\ conv.message.content.text \notin DOMAIN map
                 THEN MapSet(map, conv.message.content.text, conv)
                 ELSE map,
                 Tail(sidechainConvs))

\* promptToRoot: root user messages with string content, by that string.
RECURSIVE PromptToRoot(_, _)
PromptToRoot(map, sidechainConvs) ==
    IF sidechainConvs = <<>>
    THEN map
    ELSE LET conv == Head(sidechainConvs)
         IN  PromptToRoot(
                 IF /\ conv.type = "user"
                    /\ conv.parentUuid = Null
                    /\ conv.message.content.kind = "string"
                 THEN MapSet(map, conv.message.content.text, conv)
                 ELSE map,
                 Tail(sidechainConvs))

\* Mutant: every delegated entry that carries an agentId is stored.
RECURSIVE AgentIdToRootAnyEntry(_, _)
AgentIdToRootAnyEntry(map, sidechainConvs) ==
    IF sidechainConvs = <<>>
    THEN map
    ELSE LET conv == Head(sidechainConvs)
         IN  AgentIdToRootAnyEntry(
                 IF conv.agentId # Undefined
                 THEN MapSet(map, conv.agentId, conv)
                 ELSE map,
                 Tail(sidechainConvs))

\* agentIdToRoot: roots that carry an agentId, by that agentId.
RECURSIVE AgentIdToRoot(_, _)
AgentIdToRoot(map, sidechainConvs) ==
    IF sidechainConvs = <<>>
    THEN map
    ELSE LET conv == Head(sidechainConvs)
         IN  AgentIdToRoot(
                 IF conv.parentUuid = Null /\ conv.agentId # Undefined
                 THEN MapSet(map, conv.agentId, conv)
                 ELSE map,
                 Tail(sidechainConvs))

\* Type guard: toolUseResult is an object with a string agentId.
hasAgentId(toolUseResult) == toolUseResult.agentIdType = "string"

\* The inner loop over the content blocks of one user entry.
RECURSIVE ToolUseIdsOfBlocks(_, _, _)
ToolUseIdsOfBlocks(map, blocks, toolUseResult) ==
    IF blocks = <<>>
    THEN map
    ELSE ToolUseIdsOfBlocks(
             IF Head(blocks).type = "tool_result" /\ hasAgentId(toolUseResult)
             THEN MapSet(map, Head(blocks).tool_use_id, toolUseResult.agentId)
             ELSE map,
             Tail(blocks), toolUseResult)

\* Mutant: only the user messages of the main conversation are scanned.
RECURSIVE ToolUseIdToAgentIdMainOnly(_, _)
ToolUseIdToAgentIdMainOnly(map, convs) ==
    IF convs = <<>>
    THEN map
    ELSE LET conv == Head(convs)
         IN  ToolUseIdToAgentIdMainOnly(
                 IF conv.type # "user" THEN map
                 ELSE IF conv.isSidechain = TRUE THEN map
                 ELSE IF conv.message.content.kind = "string" THEN map
                 ELSE ToolUseIdsOfBlocks(map, conv.message.content.blocks,
                                         conv.toolUseResult),
                 Tail(convs))

\* toolUseIdToAgentId: from ALL user messages, not just sidechain ones.
RECURSIVE ToolUseIdToAgentId(_, _)
ToolUseIdToAgentId(map, convs) ==
    IF convs = <<>>
    THEN map
    ELSE LET conv == Head(convs)
         IN  ToolUseIdToAgentId(
                 IF conv.type \in {"summary", "file-history-snapshot",
                                   "queue-operation", "progress"}
                 THEN map
                 ELSE IF conv.type # "user" THEN map
                 ELSE IF conv.message.content.kind = "string" THEN map
                 ELSE ToolUseIdsOfBlocks(map, conv.message.content.blocks,
                                         conv.toolUseResult),
                 Tail(convs))

\* The outcomes of the root walks the grouping loop makes, in order, up to and
\* including the first one that uses up the stack.
RECURSIVE RootWalks(_, _)
RootWalks(sidechainConvs, uuidMap) ==
    IF sidechainConvs = <<>>
    THEN <<>>
    ELSE LET root == getRootConversation(Head(sidechainConvs), uuidMap, 0)
         IN  IF root = RangeError
             THEN <<root>>
             ELSE <<root>> \o RootWalks(Tail(sidechainConvs), uuidMap)

Overflows(walked) == \E i \in 1..Len(walked) : walked[i] = RangeError

\* buildSidechainData(conversations) returns.
BuildSidechainData ==
    /\ pc = "start"
    /\ LET sidechainConvs == SidechainConversations(conversations)
           uuidMap == UuidMap(sidechainConvs)
           walked == RootWalks(sidechainConvs, uuidMap)
       IN  /\ ~Overflows(walked)
           /\ walks' = walked
           /\ sidechainData' =
                  [groupsByRootUuid |-> GroupsByRootUuid(sidechainConvs, uuidMap),
                   promptToRoot |-> PromptToRoot(EmptyMap, sidechainConvs),
                   agentIdToRoot |-> AgentIdToRoot(EmptyMap, sidechainConvs),
                   toolUseIdToAgentId |-> ToolUseIdToAgentId(EmptyMap, conversations)]
    /\ pc' = "built"
    /\ UNCHANGED <<conversations, resolved, rendered, parseVars, schemaVars, hookVars, exportVars, searchVars, docVars>>

\* buildSidechainData(conversations) is left by the RangeError of a root walk
\* that never reaches an entry without a resolvable parent.
BuildSidechainDataOverflow ==
    /\ pc = "start"
    /\ LET sidechainConvs == SidechainConversations(conversations)
           walked == RootWalks(sidechainConvs, UuidMap(sidechainConvs))
       IN  /\ Overflows(walked)
           /\ walks' = walked
    /\ pc' = "threw"
    /\ UNCHANGED <<conversations, sidechainData, resolved, rendered, parseVars, schemaVars, hookVars, exportVars, searchVars, docVars>>

\* Mutant: the second call pushes onto the groups the first call left.
BuildSidechainDataAgainOntoGroups ==
    /\ pc = "built"
    /\ LET sidechainConvs == SidechainConversations(conversations)
           uuidMap == UuidMap(sidechainConvs)
           groups == GroupByRoot(sidechainData.groupsByRootUuid, sidechainConvs, uuidMap)
       IN  /\ walks' = RootWalks(sidechainConvs, uuidMap)
           /\ sidechainData' =
                  [groupsByRootUuid |->
                       [k \in DOMAIN groups |-> SortByTimestamp(groups[k])],
                   promptToRoot |-> PromptToRoot(EmptyMap, sidechainConvs),
                   agentIdToRoot |-> AgentIdToRoot(EmptyMap, sidechainConvs),
                   toolUseIdToAgentId |-> ToolUseIdToAgentId(EmptyMap, conversations)]
    /\ pc' = "rebuilt"
    /\ UNCHANGED <<conversations, resolved, rendered, parseVars, schemaVars, hookVars, exportVars, searchVars, docVars>>

\* buildSidechainData(conversations) called a second time on the same sequence:
\* every map is made anew from the sequence.
BuildSidechainDataAgain ==
    /\ pc = "built"
    /\ LET sidechainConvs == SidechainConversations(conversations)
           uuidMap == UuidMap(sidechainConvs)
       IN  /\ walks' = RootWalks(sidechainConvs, uuidMap)
           /\ sidechainData' =
                  [groupsByRootUuid |-> GroupsByRootUuid(sidechainConvs, uuidMap),
                   promptToRoot |-> PromptToRoot(EmptyMap, sidechainConvs),
                   agentIdToRoot |-> AgentIdToRoot(EmptyMap, sidechainConvs),
                   toolUseIdToAgentId |-> ToolUseIdToAgentId(EmptyMap, conversations)]
    /\ pc' = "rebuilt"
    /\ UNCHANGED <<conversations, resolved, rendered, parseVars, schemaVars, hookVars, exportVars, searchVars, docVars>>

\* ------------------------------------------------------------------------
\* useSidechain: the groups and indices of the viewer
\* ------------------------------------------------------------------------
\* .filter(kind is none of the six).filter(conv.isSidechain === true)
IsConversationEntry(conv) ==
    /\ conv.type # "summary"
    /\ conv.type # "file-history-snapshot"
    /\ conv.type # "queue-operation"
    /\ conv.type # "progress"
    /\ conv.type # "custom-title"
    /\ conv.type # "agent-name"

IsFlaggedSidechain(conv) == conv.isSidechain = TRUE

HookSidechainConversations(convs) ==
    SelectSeq(SelectSeq(convs, IsConversationEntry), IsFlaggedSidechain)

ConversationMap(sidechainConvs) ==
    MapOfPairs([i \in 1..Len(sidechainConvs) |->
                   <<sidechainConvs[i].uuid, sidechainConvs[i]>>])

IsUserEntry(conv) == conv.type = "user"

IsPromptRoot(conv) ==
    conv.parentUuid = Null /\ conv.message.content.kind = "string"

\* conversationPromptMap: new Map(pairs), so a later pair replaces an earlier one.
ConversationPromptMap(sidechainConvs) ==
    LET roots == SelectSeq(SelectSeq(sidechainConvs, IsUserEntry), IsPromptRoot)
    IN  MapOfPairs([i \in 1..Len(roots) |->
                       <<roots[i].message.content.text, roots[i]>>])

IsStructuralEntry(conv) == conv.type \in {"user", "system", "assistant"}

IsAgentRoot(conv) == conv.parentUuid = Null /\ conv.agentId # Undefined

ConversationAgentIdMap(sidechainConvs) ==
    LET roots == SelectSeq(SelectSeq(sidechainConvs, IsStructuralEntry), IsAgentRoot)
    IN  MapOfPairs([i \in 1..Len(roots) |-> <<roots[i].agentId, roots[i]>>])

\* getRootConversationRecursive(conversation), at recursion depth `depth`.
RECURSIVE getRootConversationRecursive(_, _, _)
getRootConversationRecursive(conversation, conversationMap, depth) ==
    IF depth > StackLimit THEN RangeError
    ELSE IF conversation.parentUuid = Null THEN conversation
    ELSE IF conversation.parentUuid \notin DOMAIN conversationMap THEN conversation
    ELSE getRootConversationRecursive(conversationMap[conversation.parentUuid],
                                      conversationMap, depth + 1)

\* sidechainConversationGroups: grouped by the uuid of the root, in input order.
RECURSIVE SidechainConversationGroups(_, _, _)
SidechainConversationGroups(groups, sidechainConvs, conversationMap) ==
    IF sidechainConvs = <<>>
    THEN groups
    ELSE LET conv == Head(sidechainConvs)
             rootConversation == getRootConversationRecursive(conv, conversationMap, 0)
         IN  SidechainConversationGroups(
                 IF rootConversation.uuid \in DOMAIN groups
                 THEN [groups EXCEPT ![rootConversation.uuid] = Append(@, conv)]
                 ELSE MapSet(groups, rootConversation.uuid, <<conv>>),
                 Tail(sidechainConvs), conversationMap)

HookOverflows(sidechainConvs, conversationMap) ==
    \E i \in 1..Len(sidechainConvs) :
        getRootConversationRecursive(sidechainConvs[i], conversationMap, 0) = RangeError

\* useSidechain(conversations) and the memoized values it computes.
UseSidechain ==
    /\ pc = "mount"
    /\ LET sidechainConvs == HookSidechainConversations(conversations)
           conversationMap == ConversationMap(sidechainConvs)
       IN  /\ ~HookOverflows(sidechainConvs, conversationMap)
           /\ hook' = [mounted |-> TRUE,
                       sidechainConversationGroups |->
                           SidechainConversationGroups(EmptyMap, sidechainConvs,
                                                       conversationMap),
                       conversationPromptMap |-> ConversationPromptMap(sidechainConvs),
                       conversationAgentIdMap |-> ConversationAgentIdMap(sidechainConvs)]
    /\ pc' = "mounted"
    /\ UNCHANGED <<conversations, walks, sidechainData, resolved, rendered, got, isRoot,
                   parseVars, schemaVars, exportVars, searchVars, docVars>>

\* The grouping is left by the RangeError of a root walk over a parent cycle.
UseSidechainOverflow ==
    /\ pc = "mount"
    /\ LET sidechainConvs == HookSidechainConversations(conversations)
       IN  HookOverflows(sidechainConvs, ConversationMap(sidechainConvs))
    /\ pc' = "threw"
    /\ UNCHANGED <<conversations, walks, sidechainData, resolved, rendered, hookVars,
                   parseVars, schemaVars, exportVars, searchVars, docVars>>

\* Mutant: the group that holds the entry with the uuid, root or not.
getSidechainConversationsOfMember(groups, rootUuid) ==
    LET holding == {k \in DOMAIN groups :
                       \E j \in 1..Len(groups[k]) : groups[k][j].uuid = rootUuid}
    IN  IF holding = {} THEN <<>> ELSE groups[CHOOSE k \in holding : TRUE]

\* getSidechainConversations(rootUuid): groups.get(rootUuid) ?? []
getSidechainConversations(groups, rootUuid) ==
    IF rootUuid \in DOMAIN groups THEN groups[rootUuid] ELSE <<>>

\* isRootSidechain(conversation): the early return for five kinds, then
\* sidechainConversationGroups.has(conversation.uuid).
isRootSidechain(conversation, groups) ==
    IF \/ conversation.type = "summary"
       \/ conversation.type = "file-history-snapshot"
       \/ conversation.type = "queue-operation"
       \/ conversation.type = "custom-title"
       \/ conversation.type = "agent-name"
    THEN [uuidRead |-> FALSE, returned |-> FALSE]
    ELSE [uuidRead |-> TRUE, returned |-> conversation.uuid \in DOMAIN groups]

\* The viewer asks isRootSidechain about an entry of the sequence.
IsRootSidechain ==
    /\ pc = "mounted"
    /\ \E i \in 1..Len(conversations) :
           LET out == isRootSidechain(conversations[i],
                                      hook.sidechainConversationGroups)
           IN  isRoot' = [called |-> TRUE, position |-> i,
                          uuidRead |-> out.uuidRead, returned |-> out.returned]
    /\ UNCHANGED <<conversations, pc, walks, sidechainData, resolved, rendered, hook,
                   got, parseVars, schemaVars, exportVars, searchVars, docVars>>

\* ------------------------------------------------------------------------
\* renderTaskTool: finding the sidechain of a Task invocation
\* ------------------------------------------------------------------------
\* input.prompt of a Task invocation: a string, or no string prompt field.
TaskInput(prompt) == [promptType |-> "string", prompt |-> prompt]
TaskInputNoPrompt == [promptType |-> "absent", prompt |-> Undefined]

\* const prompt = typeof input.prompt === "string" ? input.prompt : ""
PromptOf(input) == IF input.promptType = "string" THEN input.prompt ELSE ""

\* 1. Try to find by agentId (from tool use result)
FindByAgentId(toolId, data) ==
    IF toolId \notin DOMAIN data.toolUseIdToAgentId THEN <<>>
    ELSE LET agentId == data.toolUseIdToAgentId[toolId]
         IN  IF agentId = "" THEN <<>>                 \* if (agentId): "" is falsy
             ELSE IF agentId \notin DOMAIN data.agentIdToRoot THEN <<>>
             ELSE LET rootByAgentId == data.agentIdToRoot[agentId]
                  IN  IF rootByAgentId.uuid \in DOMAIN data.groupsByRootUuid
                      THEN data.groupsByRootUuid[rootByAgentId.uuid]
                      ELSE <<>>

\* 2. Fallback: Try to find by prompt
FindByPrompt(prompt, data) ==
    IF prompt \notin DOMAIN data.promptToRoot THEN <<>>
    ELSE LET rootConversation == data.promptToRoot[prompt]
         IN  IF rootConversation.uuid \in DOMAIN data.groupsByRootUuid
             THEN data.groupsByRootUuid[rootConversation.uuid]
             ELSE <<>>

\* Mutant: no fallback to the prompt.
FindSidechainConversationsNoFallback(toolId, input, data) ==
    FindByAgentId(toolId, data)

\* The sidechainConversations renderTaskTool renders for (toolId, input).
FindSidechainConversations(toolId, input, data) ==
    LET byAgentId == FindByAgentId(toolId, data)
    IN  IF Len(byAgentId) = 0
        THEN FindByPrompt(PromptOf(input), data)
        ELSE byAgentId

\* What a renderTaskTool call gives: the list it found, whether it returned or
\* was left by a RangeError, and the number of renderTaskTool calls made, itself
\* included, when it returned.
RenderReturned(convs, calls) == [threw |-> FALSE, calls |-> calls, convs |-> convs]
RenderThrew(convs) == [threw |-> TRUE, calls |-> 0, convs |-> convs]

\* The Task invocations renderSidechainEntry meets in the entries of a group, in
\* rendering order: the tool_use blocks named "Task" of the assistant entries.
IsTaskBlock(msg) == msg.type = "tool_use" /\ msg.name = "Task"

RECURSIVE NestedTaskBlocks(_)
NestedTaskBlocks(convs) ==
    IF convs = <<>>
    THEN <<>>
    ELSE LET entry == Head(convs)
         IN  (IF entry.type = "assistant"
              THEN SelectSeq(entry.message.content.blocks, IsTaskBlock)
              ELSE <<>>) \o NestedTaskBlocks(Tail(convs))

\* renderTaskTool renders the entries of the group it finds with
\* renderSidechainEntry, which calls renderTaskTool for every nested Task: plain
\* recursion, with no record of the groups under expansion. depth is the number
\* of renderTaskTool frames on the call stack.
RECURSIVE renderTaskTool(_, _, _, _)
RECURSIVE renderSidechainEntries(_, _, _)
renderTaskTool(toolId, input, data, depth) ==
    IF depth > StackLimit THEN RenderThrew(<<>>)
    ELSE LET sidechainConversations == FindSidechainConversations(toolId, input, data)
             nested == NestedTaskBlocks(sidechainConversations)
         IN  IF nested = <<>> THEN RenderReturned(sidechainConversations, 1)
             ELSE LET html == renderSidechainEntries(nested, data, depth + 1)
                  IN  IF html.threw THEN RenderThrew(sidechainConversations)
                      ELSE RenderReturned(sidechainConversations, 1 + html.calls)

renderSidechainEntries(blocks, data, depth) ==
    IF blocks = <<>>
    THEN RenderReturned(<<>>, 0)
    ELSE LET first == renderTaskTool(Head(blocks).id, Head(blocks).input, data, depth)
         IN  IF first.threw THEN RenderThrew(<<>>)
             ELSE LET rest == renderSidechainEntries(Tail(blocks), data, depth)
                  IN  IF rest.threw THEN RenderThrew(<<>>)
                      ELSE RenderReturned(<<>>, first.calls + rest.calls)

\* ------------------------------------------------------------------------
\* Reconstruction over a decoded sequence (Spec)
\* ------------------------------------------------------------------------
\* The uuid of the entry at each position of the sequence (uuids are unique), and
\* a uuid that no entry of the sequence has (an entry of another file).
UuidOf == <<"uuid-1", "uuid-2", "uuid-3", "uuid-4", "uuid-5", "uuid-6">>
ExternalUuid == "uuid-elsewhere"

\* What parentUuid can be in a sequence of n entries.
ParentChoices(n) == {Null, ExternalUuid} \cup {UuidOf[j] : j \in 1..n}

\* The message content an entry of the type carries when it is not under study.
PlainContent(type) ==
    IF type = "user" THEN StringContent("do X") ELSE BlockContent(<<>>)

\* Type and timestamp of the delegated entries of the input.
SidechainShapes ==
    {<<"user", "2024-01-01T00:00:00.000Z">>,
     <<"user", "2024-01-01T00:00:01.000Z">>,
     <<"assistant", "2024-01-01T00:00:00.000Z">>,
     <<"assistant", "2024-01-01T00:00:01Z">>}

\* What position i of a sequence of n can hold: a summary, an entry of the main
\* conversation, or a delegated entry of any shape and parent.
Slots(n) ==
    {<<"summary">>, <<"main">>}
    \cup {<<"sidechain", shape, parent>> :
            shape \in SidechainShapes, parent \in ParentChoices(n)}

\* The entry at position i that a slot stands for.
EntryOf(i, slot) ==
    CASE slot[1] = "summary" -> MetaEntry("summary")
      [] slot[1] = "main" ->
            Entry("user", UuidOf[i], Null, FALSE, "2024-01-01T00:00:00.000Z",
                  Undefined, PlainContent("user"), NoToolUseResult)
      [] slot[1] = "sidechain" ->
            Entry(slot[2][1], UuidOf[i], slot[3], TRUE, slot[2][2], Undefined,
                  PlainContent(slot[2][1]), NoToolUseResult)

Init ==
    /\ \E n \in 1..MaxConvs :
           \E slots \in [1..n -> Slots(n)] :
               conversations = [i \in 1..n |-> EntryOf(i, slots[i])]
    /\ pc = "start" /\ walks = <<>>
    /\ sidechainData = EmptySidechainData /\ resolved = NoLookup /\ rendered = NotRendered
    /\ ParseIdle
    /\ SchemaIdle
    /\ HookIdle /\ ExportIdle /\ SearchIdle /\ DocIdle

Next ==
    \/ BuildSidechainData
    \/ BuildSidechainDataOverflow

Spec == Init /\ [][Next]_vars

\* ------------------------------------------------------------------------
\* Reconstruction and Task resolution over a decoded sequence (SpecResolve)
\* ------------------------------------------------------------------------
\* Tool call ids: the first is the tool_use_id of the tool results of the input.
ToolIds == {"toolu_1", "toolu_2"}

\* agentId of a delegated entry: absent, a sub-session id, or the empty string.
AgentIdChoices == {Undefined, "agent-1", ""}

\* toolUseResult of a user entry that holds a tool_result block.
ToolUseResultChoices ==
    {AgentToolUseResult("agent-1"), AgentToolUseResult(""), OtherToolUseResult}

\* input of the Task invocations looked up.
TaskInputs == {TaskInput("do X"), TaskInputNoPrompt}

ResolveShapes ==
    {<<"user", "2024-01-01T00:00:01.000Z">>,
     <<"assistant", "2024-01-01T00:00:00.000Z">>,
     <<"assistant", "2024-01-01T00:00:01Z">>}

\* What position i can hold: a summary, a user entry of the main conversation
\* (a prompt, or the result of a tool call), an assistant entry of the main
\* conversation holding a Task invocation, or a delegated entry that is a root
\* or a child of the first entry.
ResolveSlots ==
    {<<"summary">>, <<"main">>, <<"invocation">>}
    \cup {<<"tool_result", toolUseResult>> : toolUseResult \in ToolUseResultChoices}
    \cup {<<"sidechain", shape, parent, agentId>> :
            shape \in ResolveShapes, parent \in {Null, UuidOf[1]},
            agentId \in AgentIdChoices}

ResolveEntryOf(i, slot) ==
    CASE slot[1] = "summary" -> MetaEntry("summary")
      [] slot[1] = "main" ->
            Entry("user", UuidOf[i], Null, FALSE, "2024-01-01T00:00:00.000Z",
                  Undefined, StringContent("please"), NoToolUseResult)
      [] slot[1] = "invocation" ->
            Entry("assistant", UuidOf[i], IF i = 1 THEN Null ELSE UuidOf[i - 1],
                  FALSE, "2024-01-01T00:00:00.000Z", Undefined,
                  BlockContent(<<ToolUseBlock("toolu_1", "Task", TaskInput("do X"))>>),
                  NoToolUseResult)
      [] slot[1] = "tool_result" ->
            Entry("user", UuidOf[i], Null, FALSE, "2024-01-01T00:00:00.000Z",
                  Undefined, BlockContent(<<ToolResultBlock("toolu_1")>>), slot[2])
      [] slot[1] = "sidechain" ->
            Entry(slot[2][1], UuidOf[i], slot[3], TRUE, slot[2][2], slot[4],
                  PlainContent(slot[2][1]), NoToolUseResult)

InitResolve ==
    /\ \E n \in 1..MaxConvs :
           \E slots \in [1..n -> ResolveSlots] :
               conversations = [i \in 1..n |-> ResolveEntryOf(i, slots[i])]
    /\ pc = "start" /\ walks = <<>>
    /\ sidechainData = EmptySidechainData /\ resolved = NoLookup /\ rendered = NotRendered
    /\ ParseIdle
    /\ SchemaIdle
    /\ HookIdle /\ ExportIdle /\ SearchIdle /\ DocIdle

\* renderTaskTool(toolId, input, ...) looks up the sidechain to render, renders
\* its entries and returns.
RenderTaskTool ==
    /\ pc = "built"
    /\ \E toolId \in ToolIds, input \in TaskInputs :
           \E out \in {renderTaskTool(toolId, input, sidechainData, 1)} :
               /\ ~out.threw
               /\ resolved' = [toolId |-> toolId, prompt |-> PromptOf(input),
                               convs |-> out.convs]
               /\ rendered' = [called |-> TRUE, threw |-> FALSE, calls |-> out.calls]
    /\ UNCHANGED <<conversations, pc, walks, sidechainData, parseVars, schemaVars, hookVars, exportVars, searchVars, docVars>>

\* renderTaskTool(toolId, input, ...) is left by the RangeError of an expansion
\* that never reaches a group without a nested Task that resolves.
RenderTaskToolOverflow ==
    /\ pc = "built"
    /\ \E toolId \in ToolIds, input \in TaskInputs :
           \E out \in {renderTaskTool(toolId, input, sidechainData, 1)} :
               /\ out.threw
               /\ resolved' = [toolId |-> toolId, prompt |-> PromptOf(input),
                               convs |-> out.convs]
               /\ rendered' = [called |-> TRUE, threw |-> TRUE, calls |-> 0]
    /\ UNCHANGED <<conversations, pc, walks, sidechainData, parseVars, schemaVars, hookVars, exportVars, searchVars, docVars>>

NextResolve ==
    \/ BuildSidechainData
    \/ BuildSidechainDataOverflow
    \/ RenderTaskTool

SpecResolve == InitResolve /\ [][NextResolve]_vars

\* ------------------------------------------------------------------------
\* The indices of the export and of the viewer over a decoded sequence
\* (SpecIndex)
\* ------------------------------------------------------------------------
\* What position i can hold:
\*   - an entry of one of the six non-structural kinds;
\*   - a user entry holding the result of a tool call, in the main conversation
\*     or delegated, whose toolUseResult has a string agentId or has none;
\*   - a user entry of the main conversation with string content and a
\*     toolUseResult that has an agentId;
\*   - a delegated root: a user entry with the prompt "do X", with or without an
\*     agentId, or an assistant entry with an agentId;
\*   - a delegated assistant entry whose parent is the first entry.
IndexSlots ==
    {<<"meta", type>> : type \in NonStructuralTypes}
    \cup {<<"result", FALSE, "toolu_1", AgentToolUseResult("agent-1")>>,
          <<"result", TRUE, "toolu_2", AgentToolUseResult("agent-2")>>,
          <<"result", FALSE, "toolu_1", OtherToolUseResult>>}
    \cup {<<"prompt">>}
    \cup {<<"root", "user", Undefined>>, <<"root", "user", "agent-1">>,
          <<"root", "assistant", "agent-1">>}
    \cup {<<"child">>}

IndexEntryOf(i, slot) ==
    CASE slot[1] = "meta" -> MetaEntry(slot[2])
      [] slot[1] = "result" ->
            Entry("user", UuidOf[i], Null, slot[2], "2024-01-01T00:00:00.000Z",
                  Undefined, BlockContent(<<ToolResultBlock(slot[3])>>), slot[4])
      [] slot[1] = "prompt" ->
            Entry("user", UuidOf[i], Null, FALSE, "2024-01-01T00:00:00.000Z",
                  Undefined, StringContent("please"), AgentToolUseResult("agent-2"))
      [] slot[1] = "root" ->
            Entry(slot[2], UuidOf[i], Null, TRUE, "2024-01-01T00:00:01.000Z",
                  slot[3], PlainContent(slot[2]), NoToolUseResult)
      [] slot[1] = "child" ->
            Entry("assistant", UuidOf[i], UuidOf[1], TRUE, "2024-01-01T00:00:00.000Z",
                  Undefined, PlainContent("assistant"), NoToolUseResult)

\* The sequence goes to the export (buildSidechainData) or to the viewer
\* (useSidechain).
InitIndex ==
    /\ \E n \in 1..MaxConvs :
           \E slots \in [1..n -> IndexSlots] :
               conversations = [i \in 1..n |-> IndexEntryOf(i, slots[i])]
    /\ pc \in {"start", "mount"}
    /\ walks = <<>>
    /\ sidechainData = EmptySidechainData /\ resolved = NoLookup /\ rendered = NotRendered
    /\ ParseIdle
    /\ SchemaIdle
    /\ HookIdle /\ ExportIdle /\ SearchIdle /\ DocIdle

GetSidechainConversations ==
    /\ pc = "mounted"
    /\ \E rootUuid \in {UuidOf[i] : i \in 1..Len(conversations)} \cup {ExternalUuid} :
           got' = [rootUuid |-> rootUuid,
                   convs |-> getSidechainConversations(
                                 hook.sidechainConversationGroups, rootUuid)]
    /\ UNCHANGED <<conversations, pc, walks, sidechainData, resolved, rendered, hook, isRoot,
                   parseVars, schemaVars, exportVars, searchVars, docVars>>

NextIndex ==
    \/ BuildSidechainData
    \/ BuildSidechainDataOverflow
    \/ BuildSidechainDataAgain
    \/ RenderTaskTool
    \/ UseSidechain
    \/ UseSidechainOverflow
    \/ GetSidechainConversations

SpecIndex == InitIndex /\ [][NextIndex]_vars

\* ------------------------------------------------------------------------
\* The entries the viewer lists (SpecViewer)
\* ------------------------------------------------------------------------
\* A progress entry: unlike the five kinds isRootSidechain returns early for, it
\* reaches the read of conversation.uuid.
ProgressEntry(uuid) == [type |-> "progress", uuid |-> uuid]

\* What position i can hold:
\*   - an entry of one of the five kinds without a uuid;
\*   - a progress entry, with a uuid of its own or with the uuid of the first
\*     entry of the sequence;
\*   - a user entry of the main conversation;
\*   - a delegated root (a user entry);
\*   - a delegated assistant entry, child of the first entry.
ViewerSlots ==
    {<<"meta", type>> : type \in NonStructuralTypes \ {"progress"}}
    \cup {<<"progress", "own">>, <<"progress", "first">>}
    \cup {<<"main">>, <<"root">>, <<"child">>}

ViewerEntryOf(i, slot) ==
    CASE slot[1] = "meta" -> MetaEntry(slot[2])
      [] slot[1] = "progress" ->
            ProgressEntry(IF slot[2] = "own" THEN UuidOf[i] ELSE UuidOf[1])
      [] slot[1] = "main" ->
            Entry("user", UuidOf[i], Null, FALSE, "2024-01-01T00:00:00.000Z",
                  Undefined, StringContent("please"), NoToolUseResult)
      [] slot[1] = "root" ->
            Entry("user", UuidOf[i], Null, TRUE, "2024-01-01T00:00:00.000Z",
                  Undefined, PlainContent("user"), NoToolUseResult)
      [] slot[1] = "child" ->
            Entry("assistant", UuidOf[i], UuidOf[1], TRUE, "2024-01-01T00:00:01.000Z",
                  Undefined, PlainContent("assistant"), NoToolUseResult)

InitViewer ==
    /\ \E n \in 1..MaxConvs :
           \E slots \in [1..n -> ViewerSlots] :
               conversations = [i \in 1..n |-> ViewerEntryOf(i, slots[i])]
    /\ pc = "mount" /\ walks = <<>>
    /\ sidechainData = EmptySidechainData /\ resolved = NoLookup /\ rendered = NotRendered
    /\ ParseIdle
    /\ SchemaIdle
    /\ HookIdle /\ ExportIdle /\ SearchIdle /\ DocIdle

NextViewer ==
    \/ UseSidechain
    \/ UseSidechainOverflow
    \/ IsRootSidechain

SpecViewer == InitViewer /\ [][NextViewer]_vars

\* ------------------------------------------------------------------------
\* Delegations inside delegations (SpecNested)
\* ------------------------------------------------------------------------
\* What position i can hold:
\*   - a summary;
\*   - a delegated root: a user entry whose content is the prompt "do X" or the
\*     empty string, with or without an agentId;
\*   - a delegated assistant entry, child of the first entry, that holds a Task
\*     invocation of its own, with or without a prompt;
\*   - a delegated user entry of the agent "agent-1", child of the first entry,
\*     that holds the result of the tool call "toolu_1" with the agentId "agent-1".
NestedSlots ==
    {<<"summary">>, <<"result">>}
    \cup {<<"root", prompt, agentId>> :
            prompt \in {"do X", ""}, agentId \in {Undefined, "agent-1"}}
    \cup {<<"worker", toolId, input>> : toolId \in ToolIds, input \in TaskInputs}

NestedEntryOf(i, slot) ==
    CASE slot[1] = "summary" -> MetaEntry("summary")
      [] slot[1] = "root" ->
            Entry("user", UuidOf[i], Null, TRUE, "2024-01-01T00:00:00.000Z",
                  slot[3], StringContent(slot[2]), NoToolUseResult)
      [] slot[1] = "worker" ->
            Entry("assistant", UuidOf[i], UuidOf[1], TRUE, "2024-01-01T00:00:01.000Z",
                  Undefined, BlockContent(<<ToolUseBlock(slot[2], "Task", slot[3])>>),
                  NoToolUseResult)
      [] slot[1] = "result" ->
            Entry("user", UuidOf[i], UuidOf[1], TRUE, "2024-01-01T00:00:01.000Z",
                  "agent-1", BlockContent(<<ToolResultBlock("toolu_1")>>),
                  AgentToolUseResult("agent-1"))

InitNested ==
    /\ \E n \in 1..MaxConvs :
           \E slots \in [1..n -> NestedSlots] :
               conversations = [i \in 1..n |-> NestedEntryOf(i, slots[i])]
    /\ pc = "start" /\ walks = <<>>
    /\ sidechainData = EmptySidechainData /\ resolved = NoLookup /\ rendered = NotRendered
    /\ ParseIdle
    /\ SchemaIdle
    /\ HookIdle /\ ExportIdle /\ SearchIdle /\ DocIdle

NextNested ==
    \/ BuildSidechainData
    \/ BuildSidechainDataOverflow
    \/ RenderTaskTool
    \/ RenderTaskToolOverflow

SpecNested == InitNested /\ [][NextNested]_vars

\* ------------------------------------------------------------------------
\* generateSessionHtml: loading the missing sub-session logs (SpecExport)
\* ------------------------------------------------------------------------
\* { concurrency: 5 }
Concurrency == 5

\* The agentId and the tool call id of the i-th Task of the session.
AgentIdOf(i) == "agent-" \o ToString(i)
ToolIdOf(i) == "toolu_" \o ToString(i)

\* The user entry of the main conversation that holds the result of the i-th Task.
TaskResultEntry(i) ==
    Entry("user", "uuid-" \o ToString(i), Null, FALSE, "2024-01-01T00:00:00.000Z",
          Undefined, BlockContent(<<ToolResultBlock(ToolIdOf(i))>>),
          AgentToolUseResult(AgentIdOf(i)))

\* The user entry that holds the result of the i-th Task after it was resumed:
\* another entry with the same agentId.
ResumedResultEntry(i) ==
    Entry("user", "uuid-resumed-" \o ToString(i), Null, FALSE,
          "2024-01-01T00:00:01.000Z", Undefined,
          BlockContent(<<ToolResultBlock(ToolIdOf(i))>>),
          AgentToolUseResult(AgentIdOf(i)))

\* A delegated entry of the i-th Task stored in the session's own log (the
\* older format).
EmbeddedEntry(i) ==
    Entry("assistant", "uuid-embedded-" \o ToString(i), Null, TRUE,
          "2024-01-01T00:00:00.000Z", AgentIdOf(i), BlockContent(<<>>),
          NoToolUseResult)

\* The log of the sub-session of agentId, as the repository returns it: a root
\* user entry with the task, an assistant child, and a summary.
SubSession(agentId) ==
    <<Entry("user", agentId \o "-uuid-1", Null, FALSE, "2024-01-01T00:00:00.000Z",
            agentId, StringContent("task of " \o agentId), NoToolUseResult),
      Entry("assistant", agentId \o "-uuid-2", agentId \o "-uuid-1", TRUE,
            "2024-01-01T00:00:01.000Z", agentId, BlockContent(<<>>), NoToolUseResult),
      MetaEntry("summary")>>

\* agentIds: the agentId of every tool result of a user entry, in the order of
\* first insertion into the Set.
\* Mutant: an Array in place of the Set, an agentId added each time it is met.
RECURSIVE AgentIdsOfBlocksArray(_, _, _)
AgentIdsOfBlocksArray(agentIds, blocks, toolUseResult) ==
    IF blocks = <<>>
    THEN agentIds
    ELSE AgentIdsOfBlocksArray(
             IF Head(blocks).type = "tool_result" /\ hasAgentId(toolUseResult)
             THEN Append(agentIds, toolUseResult.agentId)
             ELSE agentIds,
             Tail(blocks), toolUseResult)

RECURSIVE AgentIdsOfBlocks(_, _, _)
AgentIdsOfBlocks(agentIds, blocks, toolUseResult) ==
    IF blocks = <<>>
    THEN agentIds
    ELSE AgentIdsOfBlocks(
             IF /\ Head(blocks).type = "tool_result"
                /\ hasAgentId(toolUseResult)
                /\ \A k \in 1..Len(agentIds) : agentIds[k] # toolUseResult.agentId
             THEN Append(agentIds, toolUseResult.agentId)
             ELSE agentIds,
             Tail(blocks), toolUseResult)

RECURSIVE AgentIds(_, _)
AgentIds(agentIds, convs) ==
    IF convs = <<>>
    THEN agentIds
    ELSE LET conv == Head(convs)
         IN  AgentIds(
                 IF conv.type # "user" THEN agentIds
                 ELSE IF conv.message.content.kind = "string" THEN agentIds
                 ELSE AgentIdsOfBlocks(agentIds, conv.message.content.blocks,
                                       conv.toolUseResult),
                 Tail(convs))

\* existingAgentIds: the agentIds of the delegated entries already in the session.
ExistingAgentIds(convs) ==
    {convs[i].agentId :
        i \in {j \in 1..Len(convs) :
                  /\ convs[j].type # "x-error"
                  /\ PassesKindTests(convs[j])
                  /\ convs[j].isSidechain = TRUE
                  /\ convs[j].agentId # Undefined}}

\* c.type === "user" || c.type === "assistant" || c.type === "system"
IsValidConv(c) == c.type = "user" \/ c.type = "assistant" \/ c.type = "system"

\* { ...c, isSidechain: true }
MarkSidechain(c) == [c EXCEPT !.isSidechain = TRUE]

\* What one loaded session adds to loadedConversations.
LoadedOf(sess) ==
    LET validConvs == SelectSeq(sess, IsValidConv)
    IN  [j \in 1..Len(validConvs) |-> MarkSidechain(validConvs[j])]

\* for (const sess of loadedSessions) { if (sess) { ...push } }
RECURSIVE LoadedConversations(_, _, _)
LoadedConversations(loaded, agentIds, states) ==
    IF agentIds = <<>>
    THEN loaded
    ELSE LoadedConversations(
             IF Head(states) = "loaded"
             THEN loaded \o LoadedOf(SubSession(Head(agentIds)))
             ELSE loaded,
             Tail(agentIds), Tail(states))

IsNotError(conv) == conv.type # "x-error"

Running == {i \in 1..Len(fetchState) : fetchState[i] = "running"}
Pending == {i \in 1..Len(fetchState) : fetchState[i] = "pending"}

\* The session holds the results of n Tasks; the last Task may have been
\* resumed, which gives a second result with its agentId; the entries of the
\* first Task may be in the session's own log; the log may hold a line that did
\* not decode.
InitExport ==
    /\ \E n \in 1..MaxAgents, embedded \in BOOLEAN, undecoded \in BOOLEAN,
          resumed \in BOOLEAN :
           session =
               (IF undecoded
                THEN <<ErrorJsonl(Json("unknown", "string", "absent", "string",
                                       "invalid"), 0)>>
                ELSE <<>>)
               \o [i \in 1..n |-> TaskResultEntry(i)]
               \o (IF resumed THEN <<ResumedResultEntry(n)>> ELSE <<>>)
               \o (IF embedded THEN <<EmbeddedEntry(1)>> ELSE <<>>)
    /\ missingAgentIds = <<>> /\ fetchState = <<>>
    /\ loadedConversations = <<>> /\ exportPc = "start"
    /\ SidechainIdle
    /\ ParseIdle
    /\ SchemaIdle
    /\ HookIdle /\ SearchIdle /\ DocIdle

\* The agentIds of the session that have no entry in it.
IdentifyMissing ==
    /\ exportPc = "start"
    /\ LET agentIds == AgentIds(<<>>, session)
           existingAgentIds == ExistingAgentIds(session)
           IsMissing(id) == id \notin existingAgentIds
           missing == SelectSeq(agentIds, IsMissing)
       IN  /\ missingAgentIds' = missing
           /\ fetchState' = [i \in 1..Len(missing) |-> "pending"]
    /\ exportPc' = "loading"
    /\ UNCHANGED <<session, loadedConversations, sidechainVars, parseVars,
                   schemaVars, hookVars, searchVars, docVars>>

\* Mutant: every fetch is started at once.
StartFetchUnbounded ==
    /\ exportPc = "loading"
    /\ Pending # {}
    /\ LET i == CHOOSE p \in Pending : \A q \in Pending : p <= q
       IN  fetchState' = [fetchState EXCEPT ![i] = "running"]
    /\ UNCHANGED <<session, missingAgentIds, loadedConversations, exportPc,
                   sidechainVars, parseVars, schemaVars, hookVars, searchVars, docVars>>

\* Effect.all(..., { concurrency: 5 }) starts the next effect of the array when
\* fewer than 5 are running.
StartFetch ==
    /\ exportPc = "loading"
    /\ Pending # {}
    /\ Cardinality(Running) < Concurrency
    /\ LET i == CHOOSE p \in Pending : \A q \in Pending : p <= q
       IN  fetchState' = [fetchState EXCEPT ![i] = "running"]
    /\ UNCHANGED <<session, missingAgentIds, loadedConversations, exportPc,
                   sidechainVars, parseVars, schemaVars, hookVars, searchVars, docVars>>

\* getAgentSessionByAgentId succeeds with the log, or with null when there is none.
FetchReturns ==
    /\ exportPc = "loading"
    /\ \E i \in Running, outcome \in {"loaded", "notfound"} :
           fetchState' = [fetchState EXCEPT ![i] = outcome]
    /\ UNCHANGED <<session, missingAgentIds, loadedConversations, exportPc,
                   sidechainVars, parseVars, schemaVars, hookVars, searchVars, docVars>>

\* getAgentSessionByAgentId fails: Effect.all fails with the first failure,
\* interrupts the effects still running and starts no other; nothing catches the
\* failure, so it is the failure of generateSessionHtml.
FetchFails ==
    /\ exportPc = "loading"
    /\ \E i \in Running :
           fetchState' = [j \in 1..Len(fetchState) |->
                             IF j = i THEN "failed"
                             ELSE IF fetchState[j] = "running" THEN "interrupted"
                             ELSE fetchState[j]]
    /\ exportPc' = "failed"
    /\ UNCHANGED <<session, missingAgentIds, loadedConversations,
                   sidechainVars, parseVars, schemaVars, hookVars, searchVars, docVars>>

\* Every fetch has returned: loadedConversations, then allConversations, which
\* is handed to buildSidechainData.
CombineConversations ==
    /\ exportPc = "loading"
    /\ \A i \in 1..Len(fetchState) : fetchState[i] \in {"loaded", "notfound"}
    /\ loadedConversations' = LoadedConversations(<<>>, missingAgentIds, fetchState)
    /\ conversations' = SelectSeq(session, IsNotError) \o loadedConversations'
    /\ pc' = "start"
    /\ exportPc' = "combined"
    /\ UNCHANGED <<session, missingAgentIds, fetchState, walks, sidechainData,
                   resolved, rendered, parseVars, schemaVars, hookVars, searchVars, docVars>>

NextExport ==
    \/ IdentifyMissing
    \/ StartFetch
    \/ FetchReturns
    \/ FetchFails
    \/ CombineConversations
    \/ BuildSidechainData
    \/ RenderTaskTool

SpecExport == InitExport /\ [][NextExport]_vars

\* ------------------------------------------------------------------------
\* extractSearchableText (SpecSearch)
\* ------------------------------------------------------------------------
\* Content items of a user message: a plain string, a text block, an image block.
UserItems ==
    {[kind |-> "string", text |-> "run the tests"],
     [kind |-> "block", type |-> "text", hasText |-> TRUE, text |-> "and lint"],
     [kind |-> "block", type |-> "image", hasText |-> FALSE, text |-> Undefined]}

\* Content items of an assistant message: text, thinking and tool_use blocks.
AssistantItems ==
    {[kind |-> "block", type |-> "text", hasText |-> TRUE, text |-> "Let me help you"],
     [kind |-> "block", type |-> "text", hasText |-> TRUE, text |-> "Done!"],
     [kind |-> "block", type |-> "thinking", hasText |-> FALSE, text |-> Undefined],
     [kind |-> "block", type |-> "tool_use", hasText |-> FALSE, text |-> Undefined]}

ItemLists(items) == UNION {[1..n -> items] : n \in 0..MaxItems}

\* The entries extractSearchableText is called with.
SearchInputs ==
    {[type |-> "x-error", line |-> line, lineNumber |-> n] :
        line \in {"invalid json", "{}"}, n \in 1..MaxLines}
    \cup {[type |-> "custom-title", customTitle |-> title, sessionId |-> "abc-123"] :
            title \in {"My Custom Session Name", "fix login", ""}}
    \cup {[type |-> "agent-name", agentName |-> name, sessionId |-> "abc-123"] :
            name \in {"claude-code-agent", "explorer", ""}}
    \cup {[type |-> "summary", summary |-> text] :
            text \in {"A summary of the conversation", ""}}
    \cup {[type |-> type] :
            type \in {"system", "file-history-snapshot", "queue-operation", "progress"}}
    \cup {[type |-> "user", message |-> [content |-> StringContent(text)]] :
            text \in {"hello", ""}}
    \cup {[type |-> "user", message |-> [content |-> BlockContent(items)]] :
            items \in ItemLists(UserItems)}
    \cup {[type |-> "assistant", message |-> [content |-> BlockContent(items)]] :
            items \in ItemLists(AssistantItems)}

\* Array.prototype.join(" ")
RECURSIVE JoinWithSpace(_)
JoinWithSpace(strings) ==
    IF strings = <<>> THEN ""
    ELSE IF Len(strings) = 1 THEN strings[1]
    ELSE strings[1] \o " " \o JoinWithSpace(Tail(strings))

UserItemText(item) ==
    IF item.kind = "string" THEN item.text
    ELSE IF item.hasText THEN item.text
    ELSE ""

IsTruthy(string) == string # ""

extractUserText(entry) ==
    LET messageContent == entry.message.content
    IN  IF messageContent.kind = "string" THEN messageContent.text
        ELSE JoinWithSpace(
                 SelectSeq([k \in 1..Len(messageContent.blocks) |->
                               UserItemText(messageContent.blocks[k])],
                           IsTruthy))

IsTextBlock(item) == item.type = "text" /\ item.hasText

extractAssistantText(entry) ==
    LET texts == SelectSeq(entry.message.content.blocks, IsTextBlock)
    IN  JoinWithSpace([k \in 1..Len(texts) |-> texts[k].text])

\* Mutant: the agent name is searchable too.
extractSearchableTextWithAgentName(conversation) ==
    IF conversation.type = "x-error" THEN Null
    ELSE IF conversation.type = "user" THEN extractUserText(conversation)
    ELSE IF conversation.type = "assistant" THEN extractAssistantText(conversation)
    ELSE IF conversation.type = "custom-title" THEN conversation.customTitle
    ELSE IF conversation.type = "agent-name" THEN conversation.agentName
    ELSE Null

extractSearchableText(conversation) ==
    IF conversation.type = "x-error" THEN Null
    ELSE IF conversation.type = "user" THEN extractUserText(conversation)
    ELSE IF conversation.type = "assistant" THEN extractAssistantText(conversation)
    ELSE IF conversation.type = "custom-title" THEN conversation.customTitle
    ELSE IF conversation.type = "agent-name" THEN Null
    ELSE Null

InitSearch ==
    /\ searchInput \in SearchInputs
    /\ searchableText = NotSearched
    /\ SidechainIdle
    /\ ParseIdle
    /\ SchemaIdle
    /\ HookIdle /\ ExportIdle /\ DocIdle

ExtractSearchableText ==
    /\ ~searchableText.called
    /\ searchableText' = [called |-> TRUE, text |-> extractSearchableText(searchInput)]
    /\ UNCHANGED <<searchInput, sidechainVars, parseVars, schemaVars, hookVars,
                   exportVars, docVars>>

NextSearch == ExtractSearchableText

SpecSearch == InitSearch /\ [][NextSearch]_vars

\* ------------------------------------------------------------------------
\* generateSessionHtml: the entries of the document (SpecDocument)
\* ------------------------------------------------------------------------
\* grouped.push({ type: currentGroup.length > 1 ? "grouped" : "single",
\*                entries: currentGroup })
AssistantGroup(currentGroup) ==
    [type |-> IF Len(currentGroup) > 1 THEN "grouped" ELSE "single",
     entries |-> currentGroup]

\* grouped.push({ type: "single", entries: [conv] })
SingleGroup(conv) == [type |-> "single", entries |-> <<conv>>]

\* if (currentGroup.length > 0) { grouped.push(...) }
FlushGroup(groups, currentGroup) ==
    IF Len(currentGroup) > 0
    THEN Append(groups, AssistantGroup(currentGroup))
    ELSE groups

\* Mutant: the run of assistant entries that ends the sequence is not pushed.
RECURSIVE GroupLoopForgetLast(_, _, _)
GroupLoopForgetLast(groups, currentGroup, convs) ==
    IF convs = <<>>
    THEN groups
    ELSE LET conv == Head(convs)
         IN  IF conv.type = "assistant"
             THEN GroupLoopForgetLast(groups, Append(currentGroup, conv), Tail(convs))
             ELSE IF conv.type = "user" \/ conv.type = "system"
             THEN GroupLoopForgetLast(
                      Append(FlushGroup(groups, currentGroup), SingleGroup(conv)),
                      <<>>, Tail(convs))
             ELSE GroupLoopForgetLast(groups, currentGroup, Tail(convs))

\* The loop over conversations, then the push of the last group.
RECURSIVE GroupLoop(_, _, _)
GroupLoop(groups, currentGroup, convs) ==
    IF convs = <<>>
    THEN FlushGroup(groups, currentGroup)
    ELSE LET conv == Head(convs)
         IN  IF conv.type = "assistant"
             THEN GroupLoop(groups, Append(currentGroup, conv), Tail(convs))
             ELSE IF conv.type = "user" \/ conv.type = "system"
             THEN GroupLoop(Append(FlushGroup(groups, currentGroup), SingleGroup(conv)),
                            <<>>, Tail(convs))
             ELSE GroupLoop(groups, currentGroup, Tail(convs))

groupConsecutiveAssistantMessagesForgetLast(convs) ==
    GroupLoopForgetLast(<<>>, <<>>, convs)

groupConsecutiveAssistantMessages(convs) == GroupLoop(<<>>, <<>>, convs)

\* A fragment of the document: the role it is rendered under and the uuids of
\* the entries it shows; the empty string.
Fragment(role, entries) ==
    [role |-> role, uuids |-> [k \in 1..Len(entries) |-> entries[k].uuid]]
EmptyHtml == [role |-> "", uuids |-> <<>>]

\* renderUserEntry: "" when the content has nothing but tool results.
IsShownBlock(msg) == msg.type \in {"text", "image", "document"}

renderUserEntry(entry) ==
    IF \/ entry.message.content.kind = "string"
       \/ SelectSeq(entry.message.content.blocks, IsShownBlock) # <<>>
    THEN Fragment("user", <<entry>>)
    ELSE EmptyHtml

renderAssistantEntry(entry) == Fragment("assistant", <<entry>>)

renderSystemEntry(entry) == Fragment("system", <<entry>>)

renderGroupedAssistantEntries(entries) ==
    IF entries = <<>> THEN EmptyHtml ELSE Fragment("assistant", entries)

\* The callback of grouped.map(...).
RenderGroup(group) ==
    IF group.type = "grouped" THEN renderGroupedAssistantEntries(group.entries)
    ELSE IF group.entries = <<>> THEN EmptyHtml
    ELSE LET conv == group.entries[1]
         IN  IF conv.type = "user" THEN renderUserEntry(conv)
             ELSE IF conv.type = "assistant" THEN renderAssistantEntry(conv)
             ELSE IF conv.type = "system" THEN renderSystemEntry(conv)
             ELSE EmptyHtml

IsNotEmptyHtml(html) == html # EmptyHtml

\* grouped.map(...).filter((html) => html !== "")
ConversationsHtml(groups) ==
    SelectSeq([k \in 1..Len(groups) |-> RenderGroup(groups[k])], IsNotEmptyHtml)

\* What position i of session.conversations can hold: a user entry with text, a
\* user entry that holds only a tool result, an assistant entry, a system entry,
\* the marker of a line that did not decode, a summary.
DocSlots == {"user", "tool_result", "assistant", "system", "x-error", "summary"}

DocEntryOf(i, slot) ==
    CASE slot = "user" ->
            Entry("user", UuidOf[i], Null, FALSE, "2024-01-01T00:00:00.000Z",
                  Undefined, StringContent("please"), NoToolUseResult)
      [] slot = "tool_result" ->
            Entry("user", UuidOf[i], Null, FALSE, "2024-01-01T00:00:00.000Z",
                  Undefined, BlockContent(<<ToolResultBlock("toolu_1")>>),
                  OtherToolUseResult)
      [] slot = "assistant" ->
            Entry("assistant", UuidOf[i], Null, FALSE, "2024-01-01T00:00:00.000Z",
                  Undefined, BlockContent(<<>>), NoToolUseResult)
      [] slot = "system" ->
            Entry("system", UuidOf[i], Null, FALSE, "2024-01-01T00:00:00.000Z",
                  Undefined, StringContent("System message"), NoToolUseResult)
      [] slot = "x-error" ->
            ErrorJsonl(Json("unknown", "string", "absent", "string", "invalid"), i - 1)
      [] slot = "summary" -> MetaEntry("summary")

InitDocument ==
    /\ \E n \in 0..MaxEntries :
           \E slots \in [1..n -> DocSlots] :
               docInput = [i \in 1..n |-> DocEntryOf(i, slots[i])]
    /\ grouped = <<>> /\ conversationsHtml = <<>> /\ docPc = "start"
    /\ SidechainIdle
    /\ ParseIdle
    /\ SchemaIdle
    /\ HookIdle /\ ExportIdle /\ SearchIdle

\* const grouped = groupConsecutiveAssistantMessages(session.conversations)
GroupConsecutiveAssistantMessages ==
    /\ docPc = "start"
    /\ grouped' = groupConsecutiveAssistantMessages(docInput)
    /\ docPc' = "grouped"
    /\ UNCHANGED <<docInput, conversationsHtml, sidechainVars, parseVars, schemaVars,
                   hookVars, exportVars, searchVars>>

\* const conversationsHtml = grouped.map(...).filter(...)
RenderConversations ==
    /\ docPc = "grouped"
    /\ conversationsHtml' = ConversationsHtml(grouped)
    /\ docPc' = "rendered"
    /\ UNCHANGED <<docInput, grouped, sidechainVars, parseVars, schemaVars,
                   hookVars, exportVars, searchVars>>

NextDocument ==
    \/ GroupConsecutiveAssistantMessages
    \/ RenderConversations

SpecDocument == InitDocument /\ [][NextDocument]_vars

\* ========================================================================
\* Properties of the decoder (checked under SpecParse and SpecSchema)
\* ========================================================================
\* Positions of the non-blank lines in the original text.
NonBlankPositions(text) == {i \in 1..Len(text) : ~IsBlank(text[i])}

\* Position in the original text of its k-th non-blank line.
OriginalPosition(text, k) ==
    CHOOSE i \in NonBlankPositions(text) :
        Cardinality({j \in NonBlankPositions(text) : j <= i}) = k

Returned == pcParse = "returned" /\ ret.delivered

IsSchemaValid(line) ==
    line.kind = "json" /\ SafeParse(ConversationSchema, line.value).success

KnownTypes == LegacyTypes \cup {"custom-title", "agent-name"}

\* C1 (as stated): every x-error marker carries the 1-based position of its line
\* in the original text, blank and whitespace-only lines counted.
C1_LineNumberIsOriginalPosition ==
    Returned =>
        \A k \in 1..Len(ret.value) :
            ret.value[k].type = "x-error" =>
                ret.value[k].lineNumber = OriginalPosition(content, k)

\* C1 (amended): every x-error marker carries the 1-based position of its line
\* among the non-blank lines of the text: the number of non-blank lines up to and
\* including it; blank and whitespace-only lines before it are not counted.
C1_LineNumberIsFilteredPosition ==
    Returned =>
        \A k \in 1..Len(ret.value) :
            ret.value[k].type = "x-error" =>
                /\ ret.value[k].line = content[OriginalPosition(content, k)]
                /\ ret.value[k].lineNumber =
                       Cardinality({j \in NonBlankPositions(content) :
                                       j <= OriginalPosition(content, k)})

\* A marker was produced for a line that has a blank line before it.
C1_Witness ==
    /\ Returned
    /\ \E k \in 1..Len(ret.value) :
           /\ ret.value[k].type = "x-error"
           /\ OriginalPosition(content, k) > k
           /\ ret.value[k].lineNumber = k

\* C2: a text whose non-blank lines all parse as JSON is decoded to exactly one
\* element per non-blank line, in line order; blank and whitespace-only lines
\* give no element, and a text with no non-blank line gives the empty list.
C2_OneElementPerNonBlankLine ==
    /\ (\A i \in 1..Len(content) : content[i].kind # "invalid") => pcParse # "threw"
    /\ Returned =>
        /\ Len(ret.value) = Cardinality(NonBlankPositions(content))
        /\ \A k \in 1..Len(ret.value) :
               LET line == content[OriginalPosition(content, k)]
               IN  IF ret.value[k].type = "x-error"
                   THEN ret.value[k].line = line
                   ELSE ret.value[k].data = line.value

\* Two JSON lines with a blank line between them gave two elements.
C2_Witness ==
    /\ Returned
    /\ Len(content) = 3 /\ Len(ret.value) = 2
    /\ IsBlank(content[2])
    /\ ret.value[1].type = "user" /\ ret.value[2].type = "summary"

\* C3: a line that is JSON but matches no variant (unknown type, or a known type
\* with missing or mistyped fields) becomes an x-error marker at its own position,
\* raises nothing, and leaves the decoding of the other lines as it is: the typed
\* elements of the result are the schema-valid lines, in order, each with its variant.
C3_SchemaMismatchIsMarker ==
    /\ pcParse = "threw" => lines[index + 1].kind # "json"
    /\ Returned =>
        /\ \A k \in 1..Len(ret.value) :
               LET line == content[OriginalPosition(content, k)]
               IN  /\ (\/ line.value.type \notin KnownTypes
                        \/ (line.value.type \in LegacyTypes /\ line.value.rest = "invalid"))
                       => (ret.value[k].type = "x-error" /\ ret.value[k].line = line)
                   /\ ret.value[k].type = "x-error" => ~IsSchemaValid(line)
        /\ LET typed == SelectSeq(ret.value, LAMBDA e : e.type # "x-error")
               valid == SelectSeq(content, IsSchemaValid)
           IN  /\ Len(typed) = Len(valid)
               /\ \A k \in 1..Len(typed) :
                      /\ typed[k].type = valid[k].value.type
                      /\ typed[k].data = valid[k].value

\* A marker between two typed entries.
C3_Witness ==
    /\ Returned
    /\ Len(ret.value) = 3
    /\ ret.value[1].type = "user"
    /\ ret.value[2].type = "x-error" /\ ret.value[2].line.value.type = "unknown"
    /\ ret.value[3].type = "summary"

\* C4: a non-blank line that is not JSON makes the whole call raise: nothing is
\* returned, not even the lines decoded before it, and no marker stands for it.
C4_InvalidJsonThrows ==
    /\ (\E i \in 1..Len(content) : content[i].kind = "invalid") =>
           /\ pcParse # "returned"
           /\ ret = NoReturn
           /\ \A k \in 1..Len(result) :
                  result[k].type = "x-error" => result[k].line.kind # "invalid"
    /\ pcParse = "threw" =>
           /\ lines[index + 1].kind = "invalid"
           /\ ret = NoReturn

\* The call raised on its third line, after two lines had been decoded.
C4_Witness ==
    /\ pcParse = "threw"
    /\ Len(result) = 2
    /\ ret = NoReturn

SchemaDone == parsedCurrent # NotRun /\ parsedLegacy # NotRun

\* C5: a value whose type is neither "custom-title" nor "agent-name" has the same
\* outcome against the nine-variant union as against the seven-variant one; the
\* outcomes differ only for a value of one of the two types with a string
\* customTitle/agentName and a string sessionId, which goes from failure to its
\* own variant.
C5_UnionGrowthIsBackwardCompatible ==
    SchemaDone =>
        LET v == schemaInput
            isNew ==
                \/ v.type = "custom-title" /\ v.customTitle = "string"
                     /\ v.sessionId = "string"
                \/ v.type = "agent-name" /\ v.agentName = "string"
                     /\ v.sessionId = "string"
        IN  /\ v.type \notin {"custom-title", "agent-name"}
                => parsedCurrent = parsedLegacy
            /\ ~isNew => parsedCurrent = parsedLegacy
            /\ isNew => /\ ~parsedLegacy.success
                        /\ parsedCurrent = [success |-> TRUE, variant |-> v.type]

\* A custom-title record the legacy union rejected and the current one types.
C5_Witness ==
    /\ SchemaDone
    /\ schemaInput.type = "custom-title"
    /\ parsedCurrent.success /\ ~parsedLegacy.success

\* ========================================================================
\* Properties of the reconstruction (checked under Spec)
\* ========================================================================
IsDelegated(conv) ==
    conv.type \in {"user", "assistant", "system"} /\ conv.isSidechain

\* The delegated entries of the input, in input order.
Delegated == SelectSeq(conversations, IsDelegated)

DelegatedUuids == {Delegated[i].uuid : i \in 1..Len(Delegated)}

HasResolvableParent(conv) ==
    conv.parentUuid # Null /\ conv.parentUuid \in DelegatedUuids

ParentEntry(conv) ==
    Delegated[CHOOSE i \in 1..Len(Delegated) : Delegated[i].uuid = conv.parentUuid]

\* The entry reached from conv after following k resolvable parent links, or
\* fewer if an entry without a resolvable parent is reached first.
RECURSIVE Ancestor(_, _)
Ancestor(conv, k) ==
    IF k = 0 \/ ~HasResolvableParent(conv)
    THEN conv
    ELSE Ancestor(ParentEntry(conv), k - 1)

\* The parentUuid links of the delegated entries form a cycle.
HasCycle ==
    \E ids \in SUBSET DelegatedUuids :
        /\ ids # {}
        /\ \A i \in 1..Len(Delegated) :
               Delegated[i].uuid \in ids => Delegated[i].parentUuid \in ids

\* Position of a user/assistant/system entry in the input.
InputPosition(conv) ==
    CHOOSE p \in 1..Len(conversations) :
        conversations[p].type = conv.type /\ conversations[p] = conv

Groups == sidechainData.groupsByRootUuid

\* C6: the root walk of an entry whose parentUuid is null, and of one whose
\* parentUuid names no entry of the lookup index, returns the entry itself and
\* raises nothing; when every delegated entry is such an entry the build returns.
C6_UnresolvedParentIsOwnRoot ==
    /\ \A i \in 1..Len(walks) :
           (Delegated[i].parentUuid = Null \/ Delegated[i].parentUuid \notin DelegatedUuids)
               => walks[i] = Delegated[i]
    /\ (\A i \in 1..Len(Delegated) : ~HasResolvableParent(Delegated[i]))
           => pc # "threw"

\* Both cases in one build: a root with parentUuid null, another whose parent is
\* in no entry of the sequence.
C6_Witness ==
    /\ pc = "built"
    /\ \E i, j \in 1..Len(walks) :
           /\ Delegated[i].parentUuid = Null /\ walks[i] = Delegated[i]
           /\ Delegated[j].parentUuid = ExternalUuid /\ walks[j] = Delegated[j]

\* C7 (as stated): the root walk terminates on every input without recursing
\* beyond the entries there are, a cycle included: no walk visits more entries
\* than the sequence holds, and none ends by using up the call stack.
C7_RootWalkIsTotal ==
    \A i \in 1..Len(walks) :
        /\ WalkDepth(Delegated[i], UuidMap(Delegated), 0) < Len(Delegated)
        /\ walks[i] # RangeError

\* C8: over an acyclic input the build returns, and the groups partition the
\* delegated entries: each is in exactly one group, once, under the uuid of its
\* root; each group holds the root it is keyed by; the sizes add up.
C8_GroupsPartitionDelegated ==
    /\ pc = "threw" => HasCycle
    /\ pc = "built" =>
        /\ ~HasCycle
        /\ \A i \in 1..Len(Delegated) :
               LET conv == Delegated[i]
                   root == Ancestor(conv, Len(Delegated))
                   places == {kj \in {<<k, j>> : k \in DOMAIN Groups, j \in 1..MaxConvs + 1} :
                                 /\ kj[2] <= Len(Groups[kj[1]])
                                 /\ Groups[kj[1]][kj[2]] = conv}
               IN  /\ Cardinality(places) = 1
                   /\ \A kj \in places : kj[1] = root.uuid
        /\ \A k \in DOMAIN Groups :
               \E j \in 1..Len(Groups[k]) :
                   /\ Groups[k][j].uuid = k
                   /\ ~HasResolvableParent(Groups[k][j])
        /\ \A k \in DOMAIN Groups :
               \A j \in 1..Len(Groups[k]) :
                   \E i \in 1..Len(Delegated) : Delegated[i] = Groups[k][j]

\* Three delegated entries in two groups: a root with a child, and a lone root.
C8_Witness ==
    /\ pc = "built"
    /\ Len(Delegated) = 3
    /\ Cardinality(DOMAIN Groups) = 2
    /\ \E k \in DOMAIN Groups :
           /\ Len(Groups[k]) = 2
           /\ \E j \in 1..2 : Groups[k][j].parentUuid = k

\* C9: every group is in ascending order of timestamp, and entries of a group
\* with the same instant are in input order.
C9_GroupsSortedStable ==
    pc = "built" =>
        \A k \in DOMAIN Groups :
            \A i, j \in 1..Len(Groups[k]) :
                i < j =>
                    LET a == Groups[k][i]
                        b == Groups[k][j]
                    IN  \/ GetTime(a.timestamp) < GetTime(b.timestamp)
                        \/ /\ GetTime(a.timestamp) = GetTime(b.timestamp)
                           /\ InputPosition(a) < InputPosition(b)

\* A group of three whose latest-in-input entry comes first and whose two
\* entries of the same instant, written differently, keep their input order.
C9_Witness ==
    /\ pc = "built"
    /\ \E k \in DOMAIN Groups :
           /\ Len(Groups[k]) = 3
           /\ InputPosition(Groups[k][1]) = 3
           /\ InputPosition(Groups[k][2]) = 1
           /\ InputPosition(Groups[k][3]) = 2
           /\ Groups[k][2].timestamp # Groups[k][3].timestamp
           /\ GetTime(Groups[k][2].timestamp) = GetTime(Groups[k][3].timestamp)

\* ========================================================================
\* Properties of the resolution (checked under SpecResolve)
\* ========================================================================
Looked == resolved.toolId # Undefined

SortedStable(convs) ==
    \A i, j \in 1..Len(convs) :
        i < j =>
            \/ GetTime(convs[i].timestamp) < GetTime(convs[j].timestamp)
            \/ /\ GetTime(convs[i].timestamp) = GetTime(convs[j].timestamp)
               /\ InputPosition(convs[i]) < InputPosition(convs[j])

\* C10 (as stated): a Task invocation whose tool call id maps to an agentId that
\* has a root resolves to a non-empty list, whose members all have that root as
\* their root, in ascending order of timestamp with ties in input order.
C10_AgentIdWithRootResolves ==
    (/\ Looked
     /\ resolved.toolId \in DOMAIN sidechainData.toolUseIdToAgentId
     /\ sidechainData.toolUseIdToAgentId[resolved.toolId]
            \in DOMAIN sidechainData.agentIdToRoot)
    => LET agentId == sidechainData.toolUseIdToAgentId[resolved.toolId]
           root == sidechainData.agentIdToRoot[agentId]
       IN  /\ resolved.convs # <<>>
           /\ \A j \in 1..Len(resolved.convs) :
                  Ancestor(resolved.convs[j], Len(Delegated)) = root
           /\ SortedStable(resolved.convs)

\* What the two strategies find in the indices, each on its own: the group of
\* the root that the tool call id leads to through the agentId, and the group of
\* the root that the prompt leads to; <<>> when a lookup on the way misses.
IdentifierGroup ==
    LET data == sidechainData
    IN  IF /\ resolved.toolId \in DOMAIN data.toolUseIdToAgentId
           /\ data.toolUseIdToAgentId[resolved.toolId] \in DOMAIN data.agentIdToRoot
        THEN data.groupsByRootUuid[
                 data.agentIdToRoot[data.toolUseIdToAgentId[resolved.toolId]].uuid]
        ELSE <<>>

PromptGroup ==
    IF resolved.prompt \in DOMAIN sidechainData.promptToRoot
    THEN sidechainData.groupsByRootUuid[sidechainData.promptToRoot[resolved.prompt].uuid]
    ELSE <<>>

\* C11 (as stated): the identifier strategy comes first and the first match wins:
\* when the tool call id leads through its agentId to a root, that root's group
\* is returned whatever the prompt would find; the prompt's group is returned
\* only when the identifier strategy found nothing (no agentId for the tool call
\* id, or an agentId without a root).
C11_IdentifierStrategyFirst ==
    Looked =>
        resolved.convs =
            IF IdentifierGroup # <<>> THEN IdentifierGroup ELSE PromptGroup

\* The delegated user roots whose plain-string content is the prompt looked up.
PromptRoots ==
    {i \in 1..Len(conversations) :
        /\ IsDelegated(conversations[i])
        /\ conversations[i].type = "user"
        /\ conversations[i].parentUuid = Null
        /\ conversations[i].message.content.kind = "string"
        /\ conversations[i].message.content.text = resolved.prompt}

LastOf(positions) == CHOOSE i \in positions : \A j \in positions : j <= i

\* The log of the round trip: a root user entry, its assistant child holding the
\* Task invocation toolu_1 with prompt "do X", and a delegated user root with
\* the content "do X" and no agentId.
IsRoundTripLog ==
    /\ Len(conversations) = 3
    /\ conversations[1].type = "user" /\ ~IsDelegated(conversations[1])
    /\ conversations[1].parentUuid = Null
    /\ conversations[2].type = "assistant" /\ ~IsDelegated(conversations[2])
    /\ conversations[2].parentUuid = conversations[1].uuid
    /\ conversations[2].message.content.blocks
           = <<ToolUseBlock("toolu_1", "Task", TaskInput("do X"))>>
    /\ conversations[3].type = "user" /\ IsDelegated(conversations[3])
    /\ conversations[3].parentUuid = Null
    /\ conversations[3].agentId = Undefined
    /\ conversations[3].message.content = StringContent("do X")

\* C12: when the tool call id of a Task invocation has no agentId and a delegated
\* user root has the invocation's prompt as its plain-string content, resolution
\* returns the group of such a root (of the last one, when there are several);
\* on the round-trip log it returns the one-element list of the delegated root.
C12_PromptRoundTrip ==
    /\ (/\ Looked
        /\ resolved.toolId \notin DOMAIN sidechainData.toolUseIdToAgentId
        /\ PromptRoots # {})
       => resolved.convs = Groups[conversations[LastOf(PromptRoots)].uuid]
    /\ (/\ Looked /\ IsRoundTripLog
        /\ resolved.toolId = "toolu_1" /\ resolved.prompt = "do X")
       => resolved.convs = <<conversations[3]>>

C12_Witness ==
    /\ Looked /\ IsRoundTripLog
    /\ resolved.toolId = "toolu_1" /\ resolved.prompt = "do X"
    /\ resolved.convs = <<conversations[3]>>

\* ========================================================================
\* Properties of the indices (checked under SpecIndex)
\* ========================================================================
Built == pc \in {"built", "rebuilt"}

Got == got.rootUuid # Undefined

\* C13: a lookup that finds no root is no error: when the tool call id leads to
\* no root and the prompt is the content of no delegated user root, the list
\* resolved is empty; and getSidechainConversations of a uuid that is the root of
\* no group is the empty list.
C13_MissIsEmptyList ==
    /\ (Looked /\ IdentifierGroup = <<>> /\ PromptGroup = <<>>)
           => resolved.convs = <<>>
    /\ (Got /\ got.rootUuid \notin DOMAIN hook.sidechainConversationGroups)
           => got.convs = <<>>

\* A miss next to a group that exists: the tool call id has an agentId, the
\* agentId has no root, the prompt matches nothing.
C13_Witness ==
    /\ Looked
    /\ resolved.toolId \in DOMAIN sidechainData.toolUseIdToAgentId
    /\ sidechainData.toolUseIdToAgentId[resolved.toolId]
           \notin DOMAIN sidechainData.agentIdToRoot
    /\ resolved.prompt \notin DOMAIN sidechainData.promptToRoot
    /\ DOMAIN Groups # {}
    /\ resolved.convs = <<>>

\* The positions of the delegated user roots whose plain-string content is text,
\* and of the delegated roots whose agentId is agentId.
RootsWithPrompt(text) ==
    {i \in 1..Len(conversations) :
        /\ IsDelegated(conversations[i])
        /\ conversations[i].type = "user"
        /\ conversations[i].parentUuid = Null
        /\ conversations[i].message.content.kind = "string"
        /\ conversations[i].message.content.text = text}

RootsWithAgentId(agentId) ==
    {i \in 1..Len(conversations) :
        /\ IsDelegated(conversations[i])
        /\ conversations[i].parentUuid = Null
        /\ conversations[i].agentId = agentId}

PromptsOfRoots ==
    {conversations[i].message.content.text :
        i \in {j \in 1..Len(conversations) :
                  /\ IsDelegated(conversations[j])
                  /\ conversations[j].type = "user"
                  /\ conversations[j].parentUuid = Null
                  /\ conversations[j].message.content.kind = "string"}}

AgentIdsOfRoots ==
    {conversations[i].agentId :
        i \in {j \in 1..Len(conversations) :
                  /\ IsDelegated(conversations[j])
                  /\ conversations[j].parentUuid = Null
                  /\ conversations[j].agentId # Undefined}}

IsLastWritePromptIndex(map) ==
    /\ DOMAIN map = PromptsOfRoots
    /\ \A text \in DOMAIN map : map[text] = conversations[LastOf(RootsWithPrompt(text))]

IsLastWriteAgentIdIndex(map) ==
    /\ DOMAIN map = AgentIdsOfRoots
    /\ \A agentId \in DOMAIN map :
           map[agentId] = conversations[LastOf(RootsWithAgentId(agentId))]

\* C14: the prompt index maps each plain-string content of a delegated user root
\* to the last such root of the input, and the agentId index maps each agentId of
\* a delegated root to the last such root; in the export and in the viewer.
C14_IndicesAreLastWriteWins ==
    /\ Built =>
           /\ IsLastWritePromptIndex(sidechainData.promptToRoot)
           /\ IsLastWriteAgentIdIndex(sidechainData.agentIdToRoot)
    /\ hook.mounted =>
           /\ IsLastWritePromptIndex(hook.conversationPromptMap)
           /\ IsLastWriteAgentIdIndex(hook.conversationAgentIdMap)

\* Two delegated user roots with the same prompt and two delegated roots with
\* the same agentId, indexed.
C14_Witness ==
    /\ pc = "built"
    /\ \E text \in DOMAIN sidechainData.promptToRoot :
           Cardinality(RootsWithPrompt(text)) >= 2
    /\ \E agentId \in DOMAIN sidechainData.agentIdToRoot :
           Cardinality(RootsWithAgentId(agentId)) >= 2

\* The user entries that contribute a pair to the tool call index: block content
\* with a tool_result block and a toolUseResult with a string agentId.
ContributesPair(conv, toolUseId) ==
    /\ conv.type = "user"
    /\ conv.message.content.kind = "blocks"
    /\ \E k \in 1..Len(conv.message.content.blocks) :
           /\ conv.message.content.blocks[k].type = "tool_result"
           /\ conv.message.content.blocks[k].tool_use_id = toolUseId
    /\ conv.toolUseResult.agentIdType = "string"

Contributors(toolUseId) ==
    {i \in 1..Len(conversations) : ContributesPair(conversations[i], toolUseId)}

AllToolUseIds == {"toolu_1", "toolu_2", "toolu_3"}

\* C15: the tool call index holds exactly the pairs (tool_use_id, agentId) of the
\* user entries with a tool_result block and a string agentId in toolUseResult,
\* delegated or not (the last such entry decides when two share a tool_use_id);
\* no other entry adds a pair.
C15_ToolCallIndexFromAllUserEntries ==
    Built =>
        /\ DOMAIN sidechainData.toolUseIdToAgentId
               = {id \in AllToolUseIds : Contributors(id) # {}}
        /\ \A id \in DOMAIN sidechainData.toolUseIdToAgentId :
               sidechainData.toolUseIdToAgentId[id]
                   = conversations[LastOf(Contributors(id))].toolUseResult.agentId

\* A delegated and a main-conversation user entry have both added their pair,
\* next to a user entry with a toolUseResult that adds none.
C15_Witness ==
    /\ pc = "built"
    /\ \E i \in Contributors("toolu_1") : ~conversations[i].isSidechain
    /\ \E i \in Contributors("toolu_2") : conversations[i].isSidechain
    /\ \E i \in 1..Len(conversations) :
           /\ conversations[i].type = "user"
           /\ conversations[i].message.content.kind = "string"
           /\ conversations[i].toolUseResult.agentIdType = "string"
    /\ DOMAIN sidechainData.toolUseIdToAgentId = {"toolu_1", "toolu_2"}

IsStructural(conv) == conv.type \in {"user", "assistant", "system"}

AllStructural(map) == \A k \in DOMAIN map : IsStructural(map[k])

AllGroupsStructural(groups) ==
    \A k \in DOMAIN groups : \A j \in 1..Len(groups[k]) : IsStructural(groups[k][j])

\* C19: no entry of a non-structural kind is a member of a group or a value of
\* the prompt or agentId index, in the export and in the viewer; and the kind
\* tests that stand before the read of isSidechain, uuid and parentUuid let only
\* user, assistant and system entries through.
C19_NonStructuralEntriesStayOut ==
    /\ Built =>
           /\ AllGroupsStructural(sidechainData.groupsByRootUuid)
           /\ AllStructural(sidechainData.promptToRoot)
           /\ AllStructural(sidechainData.agentIdToRoot)
    /\ hook.mounted =>
           /\ AllGroupsStructural(hook.sidechainConversationGroups)
           /\ AllStructural(hook.conversationPromptMap)
           /\ AllStructural(hook.conversationAgentIdMap)
    /\ \A i \in 1..Len(conversations) :
           /\ PassesKindTests(conversations[i]) => IsStructural(conversations[i])
           /\ IsConversationEntry(conversations[i]) => IsStructural(conversations[i])

\* Built from a sequence that holds a custom-title and an agent-name entry next
\* to a delegated root.
C19_Witness ==
    /\ pc = "built"
    /\ \E i \in 1..Len(conversations) : conversations[i].type = "custom-title"
    /\ \E i \in 1..Len(conversations) : conversations[i].type = "agent-name"
    /\ DOMAIN Groups # {}

\* ========================================================================
\* Properties of the loading of sub-sessions (checked under SpecExport)
\* ========================================================================
\* C16: while generateSessionHtml loads the missing sub-session logs, at most 5
\* fetches are in flight, however many agentIds are missing.
C16_AtMostFiveFetchesInFlight ==
    Cardinality(Running) <= 5

\* Five fetches in flight and a sixth agentId waiting for one of them to end.
C16_Witness ==
    /\ Len(missingAgentIds) > 5
    /\ Cardinality(Running) = 5
    /\ Pending # {}

\* The position in missingAgentIds of the agentId whose Task has the tool call
\* id, or 0.
FetchOf(toolId) ==
    LET hits == {i \in 1..Len(missingAgentIds) :
                    \E k \in 1..MaxAgents + 1 :
                        ToolIdOf(k) = toolId /\ AgentIdOf(k) = missingAgentIds[i]}
    IN  IF hits = {} THEN 0 ELSE CHOOSE i \in hits : TRUE

\* C17 (as stated): the failure of a fetch never becomes the failure of the
\* export; a Task whose sub-session was not found or could not be fetched
\* resolves to the empty list, and a Task whose sub-session was fetched resolves
\* to the entries of that sub-session.
C17_FetchFailureStaysLocal ==
    /\ exportPc # "failed"
    /\ (Looked /\ FetchOf(resolved.toolId) # 0) =>
           LET i == FetchOf(resolved.toolId)
           IN  /\ fetchState[i] \in {"notfound", "failed"} => resolved.convs = <<>>
               /\ fetchState[i] = "loaded" =>
                      resolved.convs = LoadedOf(SubSession(missingAgentIds[i]))

\* The agentIds that tool results of the session carry.
ToolResultAgentIds ==
    {session[i].toolUseResult.agentId :
        i \in {j \in 1..Len(session) :
                  /\ session[j].type = "user"
                  /\ session[j].message.content.kind = "blocks"
                  /\ \E b \in 1..Len(session[j].message.content.blocks) :
                         session[j].message.content.blocks[b].type = "tool_result"
                  /\ session[j].toolUseResult.agentIdType = "string"}}

\* The agentIds that delegated entries of the session carry.
EmbeddedAgentIds ==
    {session[i].agentId :
        i \in {j \in 1..Len(session) :
                  /\ session[j].type \in {"user", "assistant", "system"}
                  /\ session[j].isSidechain = TRUE
                  /\ session[j].agentId # Undefined}}

\* The user, assistant and system entries of a fetched log, in order.
RECURSIVE ConversationEntriesOf(_)
ConversationEntriesOf(log) ==
    IF log = <<>> THEN <<>>
    ELSE (IF Head(log).type \in {"user", "assistant", "system"}
          THEN <<Head(log)>> ELSE <<>>) \o ConversationEntriesOf(Tail(log))

\* What the fetches that returned a log add, in the order of missingAgentIds.
RECURSIVE FetchedEntries(_)
FetchedEntries(i) ==
    IF i = 0 THEN <<>>
    ELSE FetchedEntries(i - 1)
         \o (IF fetchState[i] = "loaded"
             THEN ConversationEntriesOf(SubSession(missingAgentIds[i]))
             ELSE <<>>)

\* C26: generateSessionHtml fetches exactly the agentIds that a tool result of
\* the session carries and no delegated entry of the session carries, each
\* distinct agentId once; from every fetched log the user, assistant and system
\* entries, and only those, are added to the input of the reconstruction, each
\* with isSidechain true.
C26_FetchesExactlyTheMissingAgentIds ==
    /\ exportPc # "start" =>
           /\ {missingAgentIds[i] : i \in 1..Len(missingAgentIds)} =
                  ToolResultAgentIds \ EmbeddedAgentIds
           /\ \A i, j \in 1..Len(missingAgentIds) :
                  missingAgentIds[i] = missingAgentIds[j] => i = j
           /\ Len(fetchState) = Len(missingAgentIds)
    /\ exportPc = "combined" =>
           /\ Len(loadedConversations) = Len(FetchedEntries(Len(missingAgentIds)))
           /\ \A k \in 1..Len(loadedConversations) :
                  /\ loadedConversations[k].type \in {"user", "assistant", "system"}
                  /\ loadedConversations[k].isSidechain = TRUE
                  /\ loadedConversations[k].uuid =
                         FetchedEntries(Len(missingAgentIds))[k].uuid
           /\ \E k \in 0..Len(session) :
                  /\ SubSeq(conversations, k + 1, Len(conversations)) =
                         loadedConversations
                  /\ \A m \in 1..k : conversations[m] \in
                         {session[i] : i \in 1..Len(session)}

\* Two results carry the same agentId, the first Task's entries are in the
\* session, another agentId is missing, and its log was fetched: an entry that
\* the log does not flag as delegated was added flagged.
C26_Witness ==
    /\ exportPc = "combined"
    /\ \E i, j \in 1..Len(session) :
           /\ i < j
           /\ session[i].type = "user" /\ session[j].type = "user"
           /\ session[i].toolUseResult = session[j].toolUseResult
           /\ session[i].toolUseResult.agentIdType = "string"
           /\ \E m \in 1..Len(missingAgentIds) :
                  /\ missingAgentIds[m] = session[i].toolUseResult.agentId
                  /\ fetchState[m] = "loaded"
    /\ EmbeddedAgentIds # {}
    /\ \E k \in 1..Len(loadedConversations) :
           /\ loadedConversations[k].type = "user"
           /\ loadedConversations[k].isSidechain = TRUE

\* ========================================================================
\* Properties of extractSearchableText (checked under SpecSearch)
\* ========================================================================
\* C20: extractSearchableText returns the customTitle of a custom-title entry,
\* and null for an agent-name entry, an x-error marker, a summary and every other
\* entry that is neither a user nor an assistant entry.
C20_SearchableTextByVariant ==
    searchableText.called =>
        /\ searchInput.type = "custom-title" =>
               searchableText.text = searchInput.customTitle
        /\ searchInput.type \notin {"user", "assistant", "custom-title"} =>
               searchableText.text = Null

C20_Witness ==
    /\ searchableText.called
    /\ searchInput.type = "custom-title"
    /\ searchableText.text = "My Custom Session Name"

\* C23: when blank lines precede a schema-invalid line, the marker's lineNumber
\* is the 1-based index of the line among the non-blank lines, which is the
\* marker's own position in the returned list; two empty lines followed by one
\* schema-invalid line give exactly one marker, with lineNumber 1.
C23_BlankLinesDoNotShiftLineNumber ==
    Returned =>
        /\ \A k \in 1..Len(ret.value) :
               ret.value[k].type = "x-error" => ret.value[k].lineNumber = k
        /\ (/\ Len(content) = 3
            /\ content[1] = EmptyLine /\ content[2] = EmptyLine
            /\ content[3].kind = "json" /\ ~IsSchemaValid(content[3])) =>
               ret.value = <<[type |-> "x-error", line |-> content[3],
                              lineNumber |-> 1]>>

\* The decoder returned for two empty lines followed by a schema-invalid line.
C23_Witness ==
    /\ Returned
    /\ content = <<EmptyLine, EmptyLine,
                   Json("unknown", "string", "absent", "string", "invalid")>>
    /\ Len(ret.value) = 1
    /\ ret.value[1].lineNumber = 1

\* ========================================================================
\* Properties relating the export to the viewer (checked under SpecIndex)
\* ========================================================================
\* C22: buildSidechainData matches useSidechain: for every input sequence the
\* two compute the same set of group keys, the same members in the same order
\* for each group, the same prompt-to-root mapping and the same agentId-to-root
\* mapping.
C22_ExportMatchesUseSidechain ==
    hook.mounted =>
        LET sidechainConvs == SidechainConversations(conversations)
            groupsByRootUuid == GroupsByRootUuid(sidechainConvs, UuidMap(sidechainConvs))
        IN  /\ DOMAIN hook.sidechainConversationGroups = DOMAIN groupsByRootUuid
            /\ \A rootUuid \in DOMAIN groupsByRootUuid :
                   hook.sidechainConversationGroups[rootUuid] =
                       groupsByRootUuid[rootUuid]
            /\ hook.conversationPromptMap = PromptToRoot(EmptyMap, sidechainConvs)
            /\ hook.conversationAgentIdMap = AgentIdToRoot(EmptyMap, sidechainConvs)

\* The tool call id leads through its agentId to a root of the agentId index.
HasKnownRoot(toolId) ==
    /\ toolId \in DOMAIN sidechainData.toolUseIdToAgentId
    /\ sidechainData.toolUseIdToAgentId[toolId] \in DOMAIN sidechainData.agentIdToRoot

\* The root is the key of a group that is not empty and holds it.
HasOwnGroup(root) ==
    /\ root.uuid \in DOMAIN sidechainData.groupsByRootUuid
    /\ sidechainData.groupsByRootUuid[root.uuid] # <<>>
    /\ \E k \in 1..Len(sidechainData.groupsByRootUuid[root.uuid]) :
           sidechainData.groupsByRootUuid[root.uuid][k] = root

\* C27: every root stored in promptToRoot or in agentIdToRoot is the key of a
\* non-empty group that contains it, so a renderTaskTool lookup that finds a root
\* in either index finds its group: the list it renders is not empty.
C27_IndexedRootsHaveTheirGroup ==
    /\ \A prompt \in DOMAIN sidechainData.promptToRoot :
           HasOwnGroup(sidechainData.promptToRoot[prompt])
    /\ \A agentId \in DOMAIN sidechainData.agentIdToRoot :
           HasOwnGroup(sidechainData.agentIdToRoot[agentId])
    /\ (/\ Looked
        /\ \/ resolved.prompt \in DOMAIN sidechainData.promptToRoot
           \/ /\ HasKnownRoot(resolved.toolId)
              /\ sidechainData.toolUseIdToAgentId[resolved.toolId] # "")
       => /\ resolved.convs # <<>>
          /\ \E root \in {sidechainData.promptToRoot[p] :
                             p \in DOMAIN sidechainData.promptToRoot}
                         \cup {sidechainData.agentIdToRoot[a] :
                                  a \in DOMAIN sidechainData.agentIdToRoot} :
                 resolved.convs = sidechainData.groupsByRootUuid[root.uuid]

\* Both indices hold a root, the roots have groups of more than one entry, and a
\* lookup by agentId rendered the group of the root it found.
C27_Witness ==
    /\ Looked
    /\ DOMAIN sidechainData.promptToRoot # {}
    /\ HasKnownRoot(resolved.toolId)
    /\ resolved.prompt \notin DOMAIN sidechainData.promptToRoot
    /\ Len(resolved.convs) > 1
    /\ resolved.convs =
           sidechainData.groupsByRootUuid[
               sidechainData.agentIdToRoot[
                   sidechainData.toolUseIdToAgentId[resolved.toolId]].uuid]

\* The parentUuid of conv names an entry of the sequence that is not delegated.
NamesNonDelegated(conv) ==
    \E p \in 1..Len(conversations) :
        /\ conversations[p].type \in {"user", "assistant", "system"}
        /\ ~conversations[p].isSidechain
        /\ conversations[p].uuid = conv.parentUuid

\* Every value of the lookup index is a delegated entry.
HoldsOnlyDelegated(map) == \A uuid \in DOMAIN map : IsDelegated(map[uuid])

\* C30: the root computed for a delegated entry is itself a delegated entry: the
\* parent lookup index (uuidMap of the export, conversationMap of the viewer)
\* holds only delegated user, assistant and system entries, so a parentUuid that
\* names a non-delegated entry of the sequence ends the walk at the child, and
\* every group key is the uuid of a delegated entry.
C30_RootsAreDelegated ==
    /\ Built =>
           /\ \A i \in 1..Len(walks) : IsDelegated(walks[i])
           /\ HoldsOnlyDelegated(UuidMap(SidechainConversations(conversations)))
           /\ \A i \in 1..Len(Delegated) :
                  NamesNonDelegated(Delegated[i]) => walks[i] = Delegated[i]
           /\ DOMAIN Groups \subseteq DelegatedUuids
    /\ hook.mounted =>
           /\ HoldsOnlyDelegated(ConversationMap(HookSidechainConversations(conversations)))
           /\ \A i \in 1..Len(Delegated) :
                  NamesNonDelegated(Delegated[i]) =>
                      /\ Delegated[i].uuid \in DOMAIN hook.sidechainConversationGroups
                      /\ hook.sidechainConversationGroups[Delegated[i].uuid][1] =
                             Delegated[i]
           /\ DOMAIN hook.sidechainConversationGroups \subseteq DelegatedUuids

\* The export walked a delegated entry whose parent is an entry of the main
\* conversation: the entry is its own root and the key of a group.
C30_Witness ==
    /\ pc = "built"
    /\ \E i \in 1..Len(Delegated) :
           /\ NamesNonDelegated(Delegated[i])
           /\ walks[i] = Delegated[i]
           /\ Delegated[i].uuid \in DOMAIN Groups

\* ========================================================================
\* Properties of isRootSidechain (checked under SpecViewer)
\* ========================================================================
\* The entry the last isRootSidechain call was about.
Asked == conversations[isRoot.position]

\* C24: isRootSidechain returns false for every non-structural entry (summary,
\* file-history-snapshot, queue-operation, progress, custom-title, agent-name),
\* whose kind is tested before its uuid is read; for a user, assistant or system
\* entry it returns true exactly when the entry's uuid is the key of a group.
C24_KindTestedBeforeUuid ==
    isRoot.called =>
        /\ Asked.type \in NonStructuralTypes =>
               ~isRoot.uuidRead /\ ~isRoot.returned
        /\ Asked.type \in {"user", "assistant", "system"} =>
               isRoot.returned =
                   (Asked.uuid \in DOMAIN hook.sidechainConversationGroups)

\* ========================================================================
\* Properties of the rendering of nested delegations (checked under SpecNested)
\* ========================================================================
\* C28: rendering a delegation terminates for every finite input: every
\* renderTaskTool call returns, also when a Task invocation inside a group
\* resolves, by agentId or by prompt, to the group that contains it.
C28_RenderingTerminates ==
    rendered.called => ~rendered.threw

\* C29: a Task invocation whose input has no string prompt, and whose tool call
\* id has no agentId mapping with a known root, resolves to the empty list,
\* whatever delegated roots the sequence holds.
C29_NoPromptNoMappingResolvesEmpty ==
    (/\ rendered.called
     /\ resolved.prompt # "do X"
     /\ ~HasKnownRoot(resolved.toolId))
    => resolved.convs = <<>>

\* ========================================================================
\* Properties of the document (checked under SpecDocument)
\* ========================================================================
IsShownKind(conv) == conv.type \in {"user", "assistant", "system"}

\* The entries of the groups, one group after the other.
RECURSIVE EntriesOfGroups(_)
EntriesOfGroups(groups) ==
    IF groups = <<>> THEN <<>>
    ELSE Head(groups).entries \o EntriesOfGroups(Tail(groups))

IsAssistantRun(group) ==
    \A k \in 1..Len(group.entries) : group.entries[k].type = "assistant"

\* C21: a parse failure is never dropped at the rendering boundary: every
\* x-error marker of session.conversations has a fragment of its own in the
\* document, told apart from the fragments of user, assistant and system entries.
C21_ParseFailuresAreRendered ==
    docPc = "rendered" =>
        Cardinality({i \in 1..Len(docInput) : docInput[i].type = "x-error"}) =
            Cardinality({f \in 1..Len(conversationsHtml) :
                            conversationsHtml[f].role = "x-error"})

\* C25: groupConsecutiveAssistantMessages is an order-preserving partition of the
\* user, assistant and system entries of its input: the entries of the groups,
\* in order, are those entries in input order, none lost or repeated; a group is
\* one user or system entry or a maximal run of assistant entries that no user or
\* system entry separates; a group is "grouped" exactly when it holds more than
\* one entry.
C25_GroupsPartitionInOrder ==
    docPc # "start" =>
        /\ EntriesOfGroups(grouped) = SelectSeq(docInput, IsShownKind)
        /\ \A g \in 1..Len(grouped) :
               /\ grouped[g].entries # <<>>
               /\ \/ /\ Len(grouped[g].entries) = 1
                     /\ grouped[g].entries[1].type \in {"user", "system"}
                  \/ IsAssistantRun(grouped[g])
               /\ grouped[g].type \in {"grouped", "single"}
               /\ grouped[g].type = "grouped" <=> Len(grouped[g].entries) > 1
        /\ \A g \in 1..Len(grouped) - 1 :
               ~(IsAssistantRun(grouped[g]) /\ IsAssistantRun(grouped[g + 1]))

\* A run of two assistant entries with a marker between them in the input was
\* grouped, followed by a group of one user entry.
C25_Witness ==
    /\ docPc = "grouped"
    /\ Len(docInput) = 4 /\ docInput[2].type = "x-error"
    /\ Len(grouped) = 2
    /\ grouped[1].type = "grouped" /\ Len(grouped[1].entries) = 2
    /\ grouped[1].entries[1] = docInput[1] /\ grouped[1].entries[2] = docInput[3]
    /\ grouped[2].type = "single" /\ grouped[2].entries[1].type = "user"

====
